---------------------------- MODULE Spec2Model ----------------------------
(***************************************************************************)
(* Model of PyPoE/poe/patchserver.py: the Patch class (handshake with the  *)
(* master patch server, the detached socket descriptor, HTTP download with *)
(* CDN -> master fallback, writing the download to a file) and the two     *)
(* module functions socket_fd_open / socket_fd_close.                      *)
(*                                                                         *)
(* Text (str) and bytes values are sequences of integers: a str is the     *)
(* sequence of its code points, a bytes object the sequence of its bytes.  *)
(* Python's None and a missing attribute are the two sentinels below, so   *)
(* that every value of one variable has one type.                          *)
(***************************************************************************)
EXTENDS Integers, Sequences, FiniteSets, TLC

VARIABLES
    obj_state,      \* per Patch object: "none" | "constructed" | "failed" | "deleted"
    patch_url,      \* per object: attribute patch_url (Unset while missing)
    patch_cdn_url,  \* per object: attribute patch_cdn_url (Unset while missing)
    sock_fd,        \* per object: attribute sock_fd (NoFd while missing)
    url_hs,         \* per object: the connection (handshake) patch_url was read from, 0 = none
    cdn_hs,         \* per object: the connection (handshake) patch_cdn_url was read from, 0 = none
    fdtab,          \* the process's open descriptors: fd -> connection
    conns,          \* the TCP connections ever opened to the master server, by number
    files,          \* the filesystem's regular files: resolved path -> content
    dirs,           \* the filesystem's directories: set of resolved paths
    ncalls,         \* the download, download_raw and version calls made so far
    thr,            \* per object: where the thread that owns it stands inside a
                    \* handshake or a release, and the descriptor of its socket object
    last,           \* what the last completed call did and how it ended
    config,         \* the ConfigHelper of the command-line application: its Setup
                    \* section (key -> performed), its Config section (key ->
                    \* value) and the content of its file
    proc            \* the command-line process: running or exited, its exit
                    \* code, what run() did before the exit, the calls made

vars == <<obj_state, patch_url, patch_cdn_url, sock_fd, url_hs, cdn_hs,
          fdtab, conns, files, dirs, ncalls, thr, last, config, proc>>

objvars == <<obj_state, patch_url, patch_cdn_url, sock_fd, url_hs, cdn_hs, thr>>
netvars == <<fdtab, conns>>
fsvars  == <<files, dirs>>
clivars == <<config, proc>>

-----------------------------------------------------------------------------
(* Values *)

\* Python's None (an argument left at its default, a function falling off its end)
None == <<-1>>
\* an attribute that was never assigned (reading it raises AttributeError)
Unset == <<-2>>
\* sock_fd before the first successful handshake
NoFd == 0 - 1

\* the two Patch objects of the model
Objs == {1, 2}

\* '/' (os.sep on the platforms the tests run on, and the URL separator)
Slash == 47

\* Python truthiness of a str-or-None argument: None and '' are falsy
Truthy(x) == x /= None /\ x /= <<>>

Max(S) == CHOOSE x \in S : \A y \in S : y <= x
Min(S) == CHOOSE x \in S : \A y \in S : x <= y

\* exceptions: the class, and what the exception carries
Exc(type, reason, code) == [type |-> type, reason |-> reason, code |-> code]
NoExc == Exc("none", "", 0)

Returned(v, reqs) == [outcome |-> "return", exc |-> NoExc, value |-> v, reqs |-> reqs]
Raised(e, reqs)   == [outcome |-> "raise", exc |-> e, value |-> None, reqs |-> reqs]

-----------------------------------------------------------------------------
(* str operations used by the code *)

\* s.rfind(c) + 1: the 1-based place of the last c in s, 0 when there is none
RFind(s, c) == Max({0} \cup {i \in 1..Len(s) : s[i] = c})

\* s.rstrip(c)
RStrip(s, c) == SubSeq(s, 1, Max({0} \cup {i \in 1..Len(s) : s[i] /= c}))

\* s.lstrip(c)
LStrip(s, c) ==
    SubSeq(s, Min({Len(s) + 1} \cup {i \in 1..Len(s) : s[i] /= c}), Len(s))

AllSlashes(s) == \A i \in 1..Len(s) : s[i] = Slash

\* s.split(c): the segments of s between the occurrences of c
RECURSIVE SplitBy(_, _)
SplitBy(s, c) ==
    LET cut == Min({Len(s) + 1} \cup {i \in 1..Len(s) : s[i] = c})
    IN  IF cut > Len(s) THEN <<s>>
        ELSE <<SubSeq(s, 1, cut - 1)>> \o SplitBy(SubSeq(s, cut + 1, Len(s)), c)


-----------------------------------------------------------------------------
(* The filesystem, as os.path / os.makedirs / open see it.  A resolved path *)
(* is the sequence of directory names from the root.                        *)

\* the process's working directory
Cwd == << <<119>> >>
CurDir == <<46>>
ParDir == <<46, 46>>

\* where the kernel arrives from directory `at` after the components `segs`
RECURSIVE Walk(_, _)
Walk(segs, at) ==
    IF segs = <<>> THEN at
    ELSE LET s == Head(segs)
             nxt == IF s = <<>> \/ s = CurDir THEN at
                    ELSE IF s = ParDir
                         THEN (IF at = <<>> THEN at ELSE SubSeq(at, 1, Len(at) - 1))
                         ELSE Append(at, s)
         IN  Walk(Tail(segs), nxt)

StartDir(p) == IF Len(p) > 0 /\ p[1] = Slash THEN <<>> ELSE Cwd

Resolve(p) == Walk(SplitBy(p, Slash), StartDir(p))

Parent(r) == IF r = <<>> THEN r ELSE SubSeq(r, 1, Len(r) - 1)

\* os_path_join without the separator: the two strings one after the other
os_path_join_concat(a, b) == a \o b

\* os.path.join(a, b)
os_path_join(a, b) ==
    IF Len(b) > 0 /\ b[1] = Slash THEN b
    ELSE IF a = <<>> \/ a[Len(a)] = Slash THEN a \o b
    ELSE a \o <<Slash>> \o b

\* os.path.split(p)[0]
os_path_split_head(p) ==
    LET head == SubSeq(p, 1, RFind(p, Slash))
    IN  IF head /= <<>> /\ ~AllSlashes(head) THEN RStrip(head, Slash) ELSE head

\* os.makedirs(name) without exist_ok: a directory that is already there is an
\* error too
os_makedirs_exist_fails(name, fls, drs) ==
    LET segs == SplitBy(name, Slash)
        at(k) == Walk(SubSeq(segs, 1, k), StartDir(name))
        blocked == {k \in 0..Len(segs) : at(k) \in DOMAIN fls}
        upto == IF blocked = {} THEN Len(segs) ELSE Min(blocked) - 1
        made == drs \cup {at(k) : k \in 0..upto}
    IN  IF name = <<>>
        THEN [ok |-> FALSE, exc |-> Exc("FileNotFoundError", "", 2), dirs |-> drs]
        ELSE IF blocked /= {} \/ at(Len(segs)) \in drs
        THEN [ok |-> FALSE, exc |-> Exc("FileExistsError", "", 17), dirs |-> made]
        ELSE [ok |-> TRUE, exc |-> NoExc, dirs |-> made]

\* os.makedirs(name, exist_ok=True): every missing directory on the way to name
\* is created; a regular file on the way, or an empty name, is an error
os_makedirs(name, fls, drs) ==
    LET segs == SplitBy(name, Slash)
        at(k) == Walk(SubSeq(segs, 1, k), StartDir(name))
        blocked == {k \in 0..Len(segs) : at(k) \in DOMAIN fls}
        upto == IF blocked = {} THEN Len(segs) ELSE Min(blocked) - 1
        made == drs \cup {at(k) : k \in 0..upto}
    IN  IF name = <<>>
        THEN [ok |-> FALSE, exc |-> Exc("FileNotFoundError", "", 2), dirs |-> drs]
        ELSE IF blocked /= {}
        THEN [ok |-> FALSE,
              exc |-> IF Min(blocked) = Len(segs)
                      THEN Exc("FileExistsError", "", 17)
                      ELSE Exc("NotADirectoryError", "", 20),
              dirs |-> made]
        ELSE [ok |-> TRUE, exc |-> NoExc, dirs |-> made]

\* open(path, mode='wb'): creates the file, or truncates the one that is there
open_wb(path, fls, drs) ==
    LET r == Resolve(path)
    IN  IF path = <<>>
        THEN [ok |-> FALSE, exc |-> Exc("FileNotFoundError", "", 2), files |-> fls]
        ELSE IF r \in drs \/ path[Len(path)] = Slash
        THEN [ok |-> FALSE, exc |-> Exc("IsADirectoryError", "", 21), files |-> fls]
        ELSE IF Parent(r) \in DOMAIN fls
        THEN [ok |-> FALSE, exc |-> Exc("NotADirectoryError", "", 20), files |-> fls]
        ELSE IF Parent(r) \notin drs
        THEN [ok |-> FALSE, exc |-> Exc("FileNotFoundError", "", 2), files |-> fls]
        ELSE [ok |-> TRUE, exc |-> NoExc,
              files |-> [q \in DOMAIN fls \cup {r} |-> IF q = r THEN <<>> ELSE fls[q]]]

\* f.write(data) on the file just opened at path
file_write(path, data, fls) == [fls EXCEPT ![Resolve(path)] = data]

-----------------------------------------------------------------------------
(* HTTP: what urllib.request.urlopen can do with one GET *)

\* urlopen returned a response object (urllib raises for every status outside 2xx)
Response(code, body) == [kind |-> "response", code |-> code, reason |-> "", body |-> body]
\* urlopen raised urllib.error.HTTPError (a URLError whose reason is the status text)
HTTPError(code) == [kind |-> "HTTPError", code |-> code, reason |-> "status text", body |-> <<>>]
\* urlopen raised urllib.error.URLError(reason), reason the OSError of the connect
URLError(reason) == [kind |-> "URLError", code |-> 0, reason |-> reason, body |-> <<>>]
\* urlopen raised something that is no URLError (a timeout while reading the response)
OtherError(reason) == [kind |-> "OSError", code |-> 0, reason |-> reason, body |-> <<>>]

\* `except URLError` catches URLError and its subclass HTTPError
IsURLError(oc) == oc.kind \in {"URLError", "HTTPError"}

\* isinstance(url_error.reason, ConnectionRefusedError)
IsRefused(oc) == oc.kind = "URLError" /\ oc.reason = "ConnectionRefusedError"

ExcOf(oc) == Exc(oc.kind, oc.reason, oc.code)

-----------------------------------------------------------------------------
(* Patch.download_raw *)

\* reraise with the refusal never passed over: no fallback to the next host
reraise_always(url_error, index, hosts) == TRUE

\* reraise with only the position tested: every URLError of a host that is
\* not the last one is passed over
reraise_last_only(url_error, index, hosts) == ~(index + 1 < Len(hosts))

\* the `if` of the except clause: the caught URLError is raised again unless
\* its reason is a refused connection and index < len(hosts); index counts
\* from 0 (enumerate)
reraise(url_error, index, hosts) ==
    ~IsRefused(url_error) \/ ~(index < Len(hosts))

\* status_rejected taking every 2xx status for a success
status_rejected_non_2xx(code) == code < 200 \/ code > 299

\* robj.getcode() != 200
status_rejected(code) == code /= 200

\* the for loop from position index on; net[host] is what a GET to a URL of
\* that host meets during the call, reqs the GETs issued so far.  Falling off
\* the loop returns None.
RECURSIVE download_raw_from(_, _, _, _, _)
download_raw_from(index, hosts, file_path, net, reqs) ==
    IF index >= Len(hosts) THEN Returned(None, reqs)
    ELSE LET url == hosts[index + 1] \o file_path
             oc == net[hosts[index + 1]]
             sent == Append(reqs, [url |-> url, oc |-> oc])
         IN  IF oc.kind = "response"
             THEN IF status_rejected(oc.code)
                  THEN Raised(Exc("ValueError", "HTTP response code", oc.code), sent)
                  ELSE Returned(oc.body, sent)
             ELSE IF IsURLError(oc)
             THEN IF reraise(oc, index, hosts)
                  THEN Raised(ExcOf(oc), sent)
                  ELSE download_raw_from(index + 1, hosts, file_path, net, sent)
             ELSE Raised(ExcOf(oc), sent)

\* download_hosts with the master server first
download_hosts_master_first(cdn_url, url) == <<url, cdn_url>>

\* hosts = [self.patch_cdn_url, self.patch_url]
download_hosts(cdn_url, url) == <<cdn_url, url>>

download_raw(cdn_url, url, file_path, net) ==
    download_raw_from(0, download_hosts(cdn_url, url), file_path, net, <<>>)

-----------------------------------------------------------------------------
(* Patch.download *)

\* write_path_for with a default in place of the else: the file is written
\* to file_path under the working directory
write_path_default(file_path, dst_dir, dst_file) ==
    IF Truthy(dst_dir) THEN [ok |-> TRUE, path |-> os_path_join(dst_dir, file_path)]
    ELSE IF Truthy(dst_file) THEN [ok |-> TRUE, path |-> dst_file]
    ELSE [ok |-> TRUE, path |-> file_path]

\* the if / elif / else that picks the write path, or raises ValueError
write_path_for(file_path, dst_dir, dst_file) ==
    IF Truthy(dst_dir) THEN [ok |-> TRUE, path |-> os_path_join(dst_dir, file_path)]
    ELSE IF Truthy(dst_file) THEN [ok |-> TRUE, path |-> dst_file]
    ELSE [ok |-> FALSE, path |-> None]

DownloadEnd(outcome, exc, reqs, fls, drs, wp) ==
    [outcome |-> outcome, exc |-> exc, value |-> None, reqs |-> reqs,
     files |-> fls, dirs |-> drs, write_path |-> wp]

\* the statements after the write path is known: makedirs, then open (which
\* creates or truncates the file), then download_raw, then write
download_to(wp, cdn_url, url, file_path, net, fls, drs) ==
    LET md == os_makedirs(os_path_split_head(wp), fls, drs)
        op == open_wb(wp, fls, md.dirs)
        r  == download_raw(cdn_url, url, file_path, net)
    IN  IF ~md.ok THEN DownloadEnd("raise", md.exc, <<>>, fls, md.dirs, wp)
        ELSE IF ~op.ok THEN DownloadEnd("raise", op.exc, <<>>, fls, md.dirs, wp)
        ELSE IF r.outcome = "raise"
        THEN DownloadEnd("raise", r.exc, r.reqs, op.files, md.dirs, wp)
        ELSE IF r.value = None
        \* f.write(None): TypeError, a bytes-like object is required
        THEN DownloadEnd("raise", Exc("TypeError", "", 0), r.reqs, op.files, md.dirs, wp)
        ELSE DownloadEnd("return", NoExc, r.reqs,
                         file_write(wp, r.value, op.files), md.dirs, wp)

download(cdn_url, url, file_path, dst_dir, dst_file, net, fls, drs) ==
    LET w == write_path_for(file_path, dst_dir, dst_file)
    IN  IF ~w.ok
        THEN DownloadEnd("raise",
                         Exc("ValueError", "Either dst_dir or dst_file must be set", 0),
                         <<>>, fls, drs, None)
        ELSE download_to(w.path, cdn_url, url, file_path, net, fls, drs)

-----------------------------------------------------------------------------
(* Patch.version *)

\* version without the strip: the segment after the last '/'
version_unstripped(url) == SubSeq(url, RFind(url, Slash) + 1, Len(url))

\* self.patch_url.strip('/').rsplit('/', maxsplit=1)[-1]
version(url) ==
    LET s == LStrip(RStrip(url, Slash), Slash)
    IN  SubSeq(s, RFind(s, Slash) + 1, Len(s))

-----------------------------------------------------------------------------
(* The handshake response and its parsing in Patch.update_patch_urls *)

\* sock.recv(1024)
RecvMax == 1024
\* struct.unpack('33s', data.read(33))
BlankLen == 33

\* io.BytesIO(data).read(n) at position pos: the bytes that are there, at most n
bytes_read(data, pos, n) == SubSeq(data, pos + 1, Min({pos + n, Len(data)}))

\* an unpack that also rejects a reserved field with a byte other than zero
unpack_fails_nonzero_reserved(b, size) ==
    Len(b) /= size \/ (size = BlankLen /\ \E i \in 1..Len(b) : b[i] /= 0)

\* struct.unpack(fmt, b) raises struct.error unless b has exactly the size of fmt
unpack_fails(b, size) == Len(b) /= size

\* the code points of a sequence of UTF-16 code units: a high surrogate takes
\* the low surrogate after it, a surrogate alone cannot be decoded
RECURSIVE utf16_points(_)
utf16_points(units) ==
    IF \A i \in 1..Len(units) : units[i] < 55296 \/ units[i] > 57343
    THEN [ok |-> TRUE, s |-> units]
    ELSE LET u == Head(units)
             high(x) == x >= 55296 /\ x <= 56319
             low(x) == x >= 56320 /\ x <= 57343
         IN  IF high(u)
             THEN IF Len(units) >= 2 /\ low(units[2])
                  THEN LET rest == utf16_points(SubSeq(units, 3, Len(units)))
                           cp == 65536 + (u - 55296) * 1024 + (units[2] - 56320)
                       IN  [ok |-> rest.ok, s |-> <<cp>> \o rest.s]
                  ELSE [ok |-> FALSE, s |-> <<>>]
             ELSE IF low(u) THEN [ok |-> FALSE, s |-> <<>>]
             ELSE LET rest == utf16_points(Tail(units))
                  IN  [ok |-> rest.ok, s |-> <<u>> \o rest.s]

\* bytes.decode('utf-16'): a leading FF FE or FE FF is a byte order mark, which
\* sets the byte order and is dropped; without one the order is the host's
\* (little-endian on the hosts this client runs on).  An odd number of bytes
\* is an error (UnicodeDecodeError: truncated data).
decode_utf16(b) ==
    LET bom == IF Len(b) >= 2 THEN <<b[1], b[2]>> ELSE <<>>
        marked == bom = <<255, 254>> \/ bom = <<254, 255>>
        little == bom /= <<254, 255>>
        body == IF marked THEN SubSeq(b, 3, Len(b)) ELSE b
        units == [i \in 1..(Len(body) \div 2) |->
                    IF little THEN body[2 * i - 1] + 256 * body[2 * i]
                    ELSE 256 * body[2 * i - 1] + body[2 * i]]
    IN  IF Len(body) % 2 = 1 THEN [ok |-> FALSE, s |-> <<>>]
        ELSE utf16_points(units)

ParseEnd(ok, exc, url, cdn) ==
    [ok |-> ok, exc |-> exc, patch_url |-> url, patch_cdn_url |-> cdn]

\* the statements between recv and detach: what they assign (Unset: the
\* attribute was not assigned by this call) and whether they raise
parse_response(data) ==
    LET unknown == bytes_read(data, 0, 1)
        blank == bytes_read(data, 1, BlankLen)
        len1 == bytes_read(data, 1 + BlankLen, 1)
        raw1 == bytes_read(data, 2 + BlankLen, len1[1] * 2)
        url == decode_utf16(raw1)
        at == 2 + BlankLen + Len(raw1)
        blank2 == bytes_read(data, at, 1)
        len2 == bytes_read(data, at + 1, 1)
        raw2 == bytes_read(data, at + 2, len2[1] * 2)
        cdn == decode_utf16(raw2)
        struct_error == Exc("struct.error", "unpack requires a buffer", 0)
        decode_error == Exc("UnicodeDecodeError", "utf-16", 0)
    IN  IF unpack_fails(unknown, 1) THEN ParseEnd(FALSE, struct_error, Unset, Unset)
        ELSE IF unpack_fails(blank, BlankLen) THEN ParseEnd(FALSE, struct_error, Unset, Unset)
        ELSE IF unpack_fails(len1, 1) THEN ParseEnd(FALSE, struct_error, Unset, Unset)
        ELSE IF ~url.ok THEN ParseEnd(FALSE, decode_error, Unset, Unset)
        ELSE IF unpack_fails(blank2, 1) THEN ParseEnd(FALSE, struct_error, url.s, Unset)
        ELSE IF unpack_fails(len2, 1) THEN ParseEnd(FALSE, struct_error, url.s, Unset)
        ELSE IF ~cdn.ok THEN ParseEnd(FALSE, decode_error, url.s, Unset)
        ELSE ParseEnd(TRUE, NoExc, url.s, cdn.s)

-----------------------------------------------------------------------------
(* The master server's side of the handshake *)

\* str.encode('utf-16-le') of a str without surrogates and astral characters
encode_utf16le(u) ==
    [i \in 1..(2 * Len(u)) |-> IF i % 2 = 1 THEN u[(i + 1) \div 2] % 256
                               ELSE u[i \div 2] \div 256]

\* the response record: status byte, 33 reserved bytes, len1, url, reserved
\* byte, len2, cdn url
HandshakeResponse(status, fill, u1, u2) ==
    <<status>> \o [i \in 1..BlankLen |-> fill] \o <<Len(u1)>> \o encode_utf16le(u1)
        \o <<fill>> \o <<Len(u2)>> \o encode_utf16le(u2)

\* data with its reserved fields overwritten, as far as data has them: the
\* status byte, the 33 reserved bytes, the reserved byte after the first URL
WithReserved(data, status, fill, between) ==
    [i \in 1..Len(data) |->
        IF i = 1 THEN status
        ELSE IF i <= 1 + BlankLen THEN fill
        ELSE IF Len(data) >= 2 + BlankLen /\ i = 3 + BlankLen + 2 * data[2 + BlankLen]
        THEN between
        ELSE data[i]]

\* Received with no limit on the size: everything that has arrived
Received_unbounded(resp, cut) == SubSeq(resp, 1, Min({cut, Len(resp)}))

\* what one recv(1024) hands to the client when the server has sent resp and
\* `cut` bytes of it have arrived
Received(resp, cut) == SubSeq(resp, 1, Min({cut, RecvMax, Len(resp)}))

-----------------------------------------------------------------------------
(* Sockets and descriptors *)

\* Patch._PROTO = b'\x01\x04'
PROTO == <<1, 4>>

\* the descriptor the kernel hands out next: the lowest one not open (0, 1, 2
\* are the standard streams)
LowestFree(tab) ==
    Min({n \in 3..(3 + Cardinality(DOMAIN tab)) : n \notin DOMAIN tab})

Bind(tab, fd, c) == [f \in DOMAIN tab \cup {fd} |-> IF f = fd THEN c ELSE tab[f]]
Unbind(tab, fd) == [f \in DOMAIN tab \ {fd} |-> tab[f]]

SockOp(call, fd, ok) == [call |-> call, fd |-> fd, ok |-> ok]

\* socket_fd_open wrapping the descriptor itself, without a duplicate
socket_fd_open_nodup(fd, tab) ==
    IF fd \notin DOMAIN tab
    THEN [ok |-> FALSE, fd |-> NoFd, fdtab |-> tab]
    ELSE [ok |-> TRUE, fd |-> fd, fdtab |-> tab]

\* socket_fd_open: socket.fromfd duplicates the descriptor and wraps the
\* duplicate; a descriptor that is not open is EBADF
socket_fd_open(fd, tab) ==
    IF fd \notin DOMAIN tab
    THEN [ok |-> FALSE, fd |-> NoFd, fdtab |-> tab]
    ELSE [ok |-> TRUE, fd |-> LowestFree(tab), fdtab |-> Bind(tab, LowestFree(tab), tab[fd])]

\* sock.shutdown(SHUT_RDWR) on connection c: ENOTCONN once the connection is
\* gone (the peer has reset it, or both sides have closed it: this side by an
\* earlier shutdown, the peer by its FIN), otherwise both directions are shut
\* down; a second shutdown of a connection the peer keeps open succeeds
sock_shutdown(c, cs) ==
    IF cs[c].peer = "reset" \/ (cs[c].shut /\ cs[c].peer = "closed")
    THEN [ok |-> FALSE, conns |-> cs]
    ELSE [ok |-> TRUE, conns |-> [cs EXCEPT ![c].shut = TRUE]]

ReleaseEnd(outcome, exc, tab, cs, ops) ==
    [outcome |-> outcome, exc |-> exc, fdtab |-> tab, conns |-> cs, sockops |-> ops]

\* the statements of a release after socket_fd_open succeeded with wrapper w:
\* shutdown, then close of the wrapper's descriptor.  swallow: the OSError of
\* shutdown is caught and passed over (Patch.__del__) or leaves the function
\* (socket_fd_close; the wrapper is then closed when it is collected).
\* close_ok: whether close(2) succeeds; the descriptor is gone either way.
shutdown_close(fd, w, cs, swallow, close_ok) ==
    LET sh == sock_shutdown(w.fdtab[w.fd], cs)
        closed == Unbind(w.fdtab, w.fd)
        ops == <<SockOp("fromfd", fd, TRUE), SockOp("shutdown", w.fd, sh.ok)>>
        all == Append(ops, SockOp("close", w.fd, close_ok))
    IN  IF ~sh.ok /\ ~swallow
        THEN ReleaseEnd("raise", Exc("OSError", "ENOTCONN", 107), closed, sh.conns, ops)
        ELSE IF ~close_ok
        THEN ReleaseEnd("raise", Exc("OSError", "close", 5), closed, sh.conns, all)
        ELSE ReleaseEnd("return", NoExc, closed, sh.conns, all)

release(fd, tab, cs, swallow, close_ok) ==
    LET w == socket_fd_open(fd, tab)
    IN  IF ~w.ok
        THEN ReleaseEnd("raise", Exc("OSError", "EBADF", 9), tab, cs,
                        <<SockOp("fromfd", fd, FALSE)>>)
        ELSE shutdown_close(fd, w, cs, swallow, close_ok)

\* socket_fd_close(socket_fd)
socket_fd_close(fd, tab, cs, close_ok) == release(fd, tab, cs, FALSE, close_ok)

\* patch_del without the try around shutdown: its OSError leaves the function
patch_del_shutdown_raises(fd, tab, cs, close_ok) ==
    IF fd = NoFd
    THEN ReleaseEnd("raise", Exc("AttributeError", "sock_fd", 0), tab, cs, <<>>)
    ELSE release(fd, tab, cs, FALSE, close_ok)

\* Patch.__del__: self.sock_fd raises AttributeError when no handshake of the
\* object ever reached the detach
patch_del(fd, tab, cs, close_ok) ==
    IF fd = NoFd
    THEN ReleaseEnd("raise", Exc("AttributeError", "sock_fd", 0), tab, cs, <<>>)
    ELSE release(fd, tab, cs, TRUE, close_ok)

\* Patch.update_patch_urls, from the socket object with descriptor fd on,
\* against a server that accepts or refuses the connection (inp.connect),
\* sends inp.resp, of which inp.cut bytes arrive.  The `with` block closes
\* the socket unless it was detached.
update_patch_urls_on(fd, inp, tab, cs) ==
    LET c == Len(cs) + 1
        data == Received(inp.resp, inp.cut)
        p == parse_response(data)
        conn == [peer |-> "open", shut |-> FALSE, sent |-> PROTO, recvs |-> 1]
        ops == <<SockOp("socket", fd, TRUE), SockOp("connect", fd, TRUE),
                 SockOp("send", fd, TRUE), SockOp("recv", fd, TRUE)>>
    IN  IF inp.connect /= "ok"
        THEN [outcome |-> "raise", exc |-> Exc(inp.connect, "connect", 0),
              patch_url |-> Unset, patch_cdn_url |-> Unset, sock_fd |-> NoFd,
              fdtab |-> Unbind(tab, fd), conns |-> cs, hs |-> 0, received |-> <<>>,
              sockops |-> <<SockOp("socket", fd, TRUE), SockOp("connect", fd, FALSE),
                            SockOp("close", fd, TRUE)>>]
        ELSE IF ~p.ok
        THEN [outcome |-> "raise", exc |-> p.exc,
              patch_url |-> p.patch_url, patch_cdn_url |-> p.patch_cdn_url,
              sock_fd |-> NoFd, fdtab |-> Unbind(tab, fd), conns |-> Append(cs, conn),
              hs |-> c,
              received |-> data, sockops |-> Append(ops, SockOp("close", fd, TRUE))]
        ELSE [outcome |-> "return", exc |-> NoExc,
              patch_url |-> p.patch_url, patch_cdn_url |-> p.patch_cdn_url,
              sock_fd |-> fd, fdtab |-> Bind(tab, fd, c), conns |-> Append(cs, conn),
              hs |-> c, received |-> data,
              sockops |-> Append(ops, SockOp("detach", fd, TRUE))]

\* socket.socket(proto=IPPROTO_TCP) takes the lowest free descriptor
update_patch_urls(inp, tab, cs) == update_patch_urls_on(LowestFree(tab), inp, tab, cs)

-----------------------------------------------------------------------------
(* The command-line application: ConfigHelper (cli/config.py), the handlers *)
(* (cli/handler.py, cli/exporter) and run (cli/core.py).  Config keys and    *)
(* values are named by strings.  A config is a record: setup maps each key   *)
(* of the Setup section to its 'performed' flag, option maps each key of the *)
(* Config section to its value, file is what config.write() stored last.     *)

\* a function with the entry k -> v added or replaced
Put(f, k, v) == [x \in DOMAIN f \cup {k} |-> IF x = k THEN v ELSE f[x]]

NoEntries == [k \in {} |-> FALSE]

Snapshot(cfg) == [setup |-> cfg.setup, option |-> cfg.option]

NoConfig == [setup |-> NoEntries, option |-> NoEntries, setupFunctions |-> NoEntries,
             listeners |-> NoEntries,
             file |-> [setup |-> NoEntries, option |-> NoEntries]]

\* the values a user can give: "x" is the one the validator rejects
Values == {"a", "b", "x"}

\* validator.check(spec, value): ValidateError for a value the specification
\* of the key rejects, the value otherwise
validator_check(value) ==
    IF value = "x" THEN [ok |-> FALSE, value |-> value] ELSE [ok |-> TRUE, value |-> value]

\* the keys registered with add_option
OptionKeys == {"temp_dir", "version"}

\* the keys registered with register_setup: WikiHandler registers temp_dir
SetupKeys == {"temp_dir"}

\* the function WikiHandler registers for temp_dir
WikiSetup == <<"_setup">>


CliResult(cfg, outcome, exc, value) ==
    [config |-> cfg, outcome |-> outcome, exc |-> exc, value |-> value, called |-> <<>>]

\* register_setup that resets the entry of the key in every case
register_setup_resets(cfg, key, funcs) ==
    [cfg EXCEPT !.setup = Put(@, key, FALSE), !.setupFunctions = Put(@, key, funcs)]

\* register_setup(key, funcs): the setup key is created as not performed
\* unless the config has it already; the functions of the key are replaced
register_setup(cfg, key, funcs) ==
    [cfg EXCEPT !.setup = IF key \in DOMAIN @ THEN @ ELSE Put(@, key, FALSE),
                !.setupFunctions = Put(@, key, funcs)]

\* set_setup_variable(setup_key, 'performed', value)
set_setup_variable(cfg, setup_key, value) ==
    [cfg EXCEPT !.setup = Put(@, setup_key, value)]

\* WikiHandler._ver_dist_changed, the listener of version: a changed value
\* makes the setup of temp_dir pending
ver_dist_changed(cfg, value, old_value) ==
    IF value = old_value THEN cfg ELSE set_setup_variable(cfg, "temp_dir", FALSE)

\* add_setup_listener(config_key, function): the function is appended to the
\* listeners of the key
add_setup_listener(cfg, key, f) ==
    [cfg EXCEPT !.listeners = Put(@, key, IF key \in DOMAIN @ THEN Append(@[key], f)
                                          ELSE <<f>>)]

ListenersOf(cfg, key) == IF key \in DOMAIN cfg.listeners THEN cfg.listeners[key] ELSE <<>>

\* the call f(key, value, old_value) of a listener
ListenerCall(f, key, value, old_value) ==
    [f |-> f, key |-> key, value |-> value, old |-> old_value]

\* what the listener f does to the config: _ver_dist_changed is the one of
\* WikiHandler, the others only look
listener_effect(cfg, f, value, old_value) ==
    IF f = "_ver_dist_changed" THEN ver_dist_changed(cfg, value, old_value) ELSE cfg

\* for f in self._listeners[key]: f(key, value, self.option[key])
RECURSIVE call_listeners(_, _, _, _)
call_listeners(cfg, ls, key, value) ==
    IF ls = <<>> THEN [config |-> cfg, called |-> <<>>]
    ELSE LET old == cfg.option[key]
             rest == call_listeners(listener_effect(cfg, Head(ls), value, old),
                                    Tail(ls), key, value)
         IN  [config |-> rest.config,
              called |-> <<ListenerCall(Head(ls), key, value, old)>> \o rest.called]

\* the statements of set_option after the invalidation of the setup, with
\* the value stored before the listeners are called
validate_store_notify(c1, key, value) ==
    LET chk == validator_check(value)
    IN  IF ~chk.ok
        THEN CliResult(c1, "raise", Exc("ValidateError", "check", 0), None)
        ELSE LET r == call_listeners([c1 EXCEPT !.option = Put(@, key, chk.value)],
                                     ListenersOf(c1, key), key, chk.value)
             IN  [CliResult(r.config, "return", NoExc, None) EXCEPT !.called = r.called]

\* the statements of set_option after the invalidation of the setup: the
\* value is validated, the listeners of the key are called with the old value
\* (a KeyError when there is none), and the value is stored
validate_notify_store(c1, key, value) ==
    LET chk == validator_check(value)
    IN  IF ~chk.ok
        THEN CliResult(c1, "raise", Exc("ValidateError", "check", 0), None)
        ELSE IF ListenersOf(c1, key) /= <<>> /\ key \notin DOMAIN c1.option
        THEN CliResult(c1, "raise", Exc("KeyError", key, 0), None)
        ELSE LET r == call_listeners(c1, ListenersOf(c1, key), key, chk.value)
             IN  [CliResult([r.config EXCEPT !.option = Put(@, key, chk.value)],
                            "return", NoExc, None) EXCEPT !.called = r.called]

\* if key in self.setup: section['performed'] = False
invalidate_setup(cfg, key) ==
    IF key \in DOMAIN cfg.setup THEN [cfg EXCEPT !.setup[key] = FALSE] ELSE cfg

\* set_option that leaves the setup of the key as it is
set_option_keeps_setup(cfg, key, value) == validate_notify_store(cfg, key, value)

\* set_option that stores the value before it calls the listeners
set_option_stores_first(cfg, key, value) ==
    validate_store_notify(invalidate_setup(cfg, key), key, value)

\* ConfigHelper.set_option(key, value): the setup of the key is invalidated
\* first, then the value is validated, the listeners of the key are called
\* with the old value, and the value is stored
set_option(cfg, key, value) ==
    validate_notify_store(invalidate_setup(cfg, key), key, value)

\* ConfigHelper.get_option(key, safe): SetupError for a pending setup when
\* safe, sys.exit(-1) for a key that is not configured, the checked value
\* otherwise
get_option(cfg, key, safe) ==
    IF safe /\ key \in DOMAIN cfg.setup /\ ~cfg.setup[key]
    THEN CliResult(cfg, "raise", Exc("SetupError", "Setup not performed.", 0), None)
    ELSE IF key \notin DOMAIN cfg.option
    THEN CliResult(cfg, "exit", Exc("SystemExit", "", 0 - 1), None)
    ELSE LET chk == validator_check(cfg.option[key])
         IN  IF chk.ok
             THEN CliResult(cfg, "return", NoExc, chk.value)
             ELSE CliResult(cfg, "raise", Exc("ValidateError", "check", 0), None)

\* ConfigHelper.is_setup(key)
is_setup(cfg, key) ==
    IF key \notin DOMAIN cfg.setup
    THEN CliResult(cfg, "raise", Exc("KeyError", key, 0), None)
    ELSE CliResult(cfg, "return", NoExc, cfg.setup[key])

\* the keys of the Setup section in the order of the section
KeyOrder == <<"temp_dir", "out_dir">>
InSetup(cfg, k) == k \in DOMAIN cfg.setup
SectionKeys(cfg) == SelectSeq(KeyOrder, LAMBDA k : InSetup(cfg, k))

\* for func in setupFunctions[key]: func(args), the functions in `fails`
\* raising: the functions called, and whether one raised
RECURSIVE call_funcs(_, _)
call_funcs(fs, fails) ==
    IF fs = <<>> THEN [called |-> <<>>, raised |-> FALSE]
    ELSE IF Head(fs) \in fails THEN [called |-> <<Head(fs)>>, raised |-> TRUE]
    ELSE LET r == call_funcs(Tail(fs), fails)
         IN  [called |-> <<Head(fs)>> \o r.called, raised |-> r.raised]

\* the try block of one key: a key without registered functions is a KeyError
try_key(cfg, k, fails) ==
    IF k \in DOMAIN cfg.setupFunctions
    THEN call_funcs(cfg.setupFunctions[k], fails)
    ELSE [called |-> <<>>, raised |-> TRUE]

\* the loop of SetupHandler.setup ended by the first exception
RECURSIVE setup_loop_stops(_, _, _)
setup_loop_stops(cfg, keys, fails) ==
    IF keys = <<>> THEN [config |-> cfg, called |-> <<>>]
    ELSE LET k == Head(keys)
         IN  IF cfg.setup[k] THEN setup_loop_stops(cfg, Tail(keys), fails)
             ELSE LET r == try_key(cfg, k, fails)
                  IN  IF r.raised THEN [config |-> cfg, called |-> r.called]
                      ELSE LET rest == setup_loop_stops([cfg EXCEPT !.setup[k] = TRUE],
                                                        Tail(keys), fails)
                           IN  [config |-> rest.config, called |-> r.called \o rest.called]

\* the loop of SetupHandler.setup over the keys of the section: a performed
\* key is passed over, an exception leaves the key as it is and goes on with
\* the next key, otherwise the key is marked performed
RECURSIVE setup_loop(_, _, _)
setup_loop(cfg, keys, fails) ==
    IF keys = <<>> THEN [config |-> cfg, called |-> <<>>]
    ELSE LET k == Head(keys)
         IN  IF cfg.setup[k] THEN setup_loop(cfg, Tail(keys), fails)
             ELSE LET r == try_key(cfg, k, fails)
                      c2 == IF r.raised THEN cfg ELSE [cfg EXCEPT !.setup[k] = TRUE]
                      rest == setup_loop(c2, Tail(keys), fails)
                  IN  [config |-> rest.config, called |-> r.called \o rest.called]

\* the keys whose setup functions a run of SetupHandler.setup calls and that
\* all return, when the functions in `fails` raise
SetupRan(cfg, fails) ==
    {k \in DOMAIN cfg.setup :
        /\ ~cfg.setup[k]
        /\ k \in DOMAIN cfg.setupFunctions
        /\ \A i \in 1..Len(cfg.setupFunctions[k]) : cfg.setupFunctions[k][i] \notin fails}

SetupResult(cfg, called) ==
    [config |-> cfg, outcome |-> "return", exc |-> NoExc, value |-> 0, called |-> called]

\* SetupHandler.setup marking a key performed also when one of its setup
\* functions raised
SetupHandler_setup_marks_failed(cfg, fails) ==
    SetupResult([cfg EXCEPT !.setup = [k \in DOMAIN cfg.setup |-> TRUE]],
                setup_loop(cfg, SectionKeys(cfg), fails).called)

\* SetupHandler.setup giving up at the first exception
SetupHandler_setup_stops(cfg, fails) ==
    LET r == setup_loop_stops(cfg, SectionKeys(cfg), fails)
    IN  SetupResult(r.config, r.called)

\* SetupHandler.setup(args): for every setup key that is not performed the
\* registered functions are called; the key is marked performed when all of
\* them returned, and left pending when one raised; returns 0
SetupHandler_setup(cfg, fails) ==
    LET r == setup_loop(cfg, SectionKeys(cfg), fails)
    IN  SetupResult(r.config, r.called)

\* config.write()
config_write(cfg) == [cfg EXCEPT !.file = Snapshot(cfg)]

\* ConfigHandler.set(args): a ValidateError is shown and -1 returned; after a
\* set_option that returned the config is written
ConfigHandler_set(cfg, key, value) ==
    LET r == set_option(cfg, key, value)
    IN  IF r.outcome = "raise" /\ r.exc.type = "ValidateError"
        THEN CliResult(r.config, "return", NoExc, 0 - 1)
        ELSE IF r.outcome = "raise"
        THEN r
        ELSE CliResult(config_write(r.config), "return", NoExc, 0)

\* ConfigHandler.get(args): prints config.option[variable]
ConfigHandler_get(cfg, key) ==
    IF key \in DOMAIN cfg.option
    THEN CliResult(cfg, "return", NoExc, 0)
    ELSE CliResult(cfg, "raise", Exc("KeyError", key, 0), None)

\* DatExportHandler.handle(args) as far as the config goes: it starts with
\* config.get_option('version') and returns None
DatExportHandler_handle(cfg) ==
    LET r == get_option(cfg, "version", TRUE)
    IN  IF r.outcome = "return" THEN CliResult(cfg, "return", NoExc, 0) ELSE r

\* the command lines: no sub-command, one argparse rejects, config get,
\* config set, setup perform, the dat exporter
Argv(cmd, key, value, fails) == [cmd |-> cmd, key |-> key, value |-> value, fails |-> fails]

\* args.func(args) for the command line argv
Handler(cfg, argv) ==
    CASE argv.cmd = "get"   -> ConfigHandler_get(cfg, argv.key)
      [] argv.cmd = "set"   -> ConfigHandler_set(cfg, argv.key, argv.value)
      [] argv.cmd = "setup" -> SetupHandler_setup(cfg, argv.fails)
      [] argv.cmd = "dat"   -> DatExportHandler_handle(cfg)

RunEnd(cfg, code, validated, written) ==
    [config |-> cfg, code |-> code, validated |-> validated, written |-> written]

\* run(parser, config): parse_args ends the process itself on a command line
\* it rejects; an Exception of the handler becomes the code -1; a SystemExit
\* of the handler is not an Exception and leaves run at once; otherwise the
\* config is validated and written and the process exits with the code
run(cfg, argv) ==
    IF argv.cmd = "bad"
    THEN RunEnd(cfg, 2, FALSE, FALSE)
    ELSE IF argv.cmd = "none"
    THEN RunEnd(config_write(cfg), 0, TRUE, TRUE)
    ELSE LET h == Handler(cfg, argv)
         IN  IF h.outcome = "exit"
             THEN RunEnd(h.config, h.exc.code, FALSE, FALSE)
             ELSE RunEnd(config_write(h.config),
                         IF h.outcome = "raise" THEN 0 - 1 ELSE h.value, TRUE, TRUE)

-----------------------------------------------------------------------------
(* Bounds and inputs *)

\* connections to the master server opened in one run
MaxHandshakes == 2
\* download / download_raw / version calls in one run
MaxCalls == 1
\* code units of a URL the server sends, in the parsing runs
MaxUrlLen == 2
\* the largest length a 'B' field can declare
MaxByte == 255

EmptyFiles == [q \in {} |-> <<>>]
EmptyTab == [f \in {} |-> 0]

\* "h/1/", "c/1/" and "h/2/", "c/2/": the master's and the CDN's base URL
\* of two game versions
UrlA == <<104, 47, 49, 47>>
CdnA == <<99, 47, 49, 47>>
UrlB == <<104, 47, 50, 47>>
CdnB == <<99, 47, 50, 47>>

HandshakeInput(connect, u1, u2, cut) ==
    [connect |-> connect, u1 |-> u1, u2 |-> u2,
     resp |-> HandshakeResponse(2, 0, u1, u2), cut |-> cut]

\* the response followed by zero bytes up to 1024 bytes, all of them arriving
PaddedInput(u1, u2) ==
    LET resp == HandshakeResponse(2, 0, u1, u2)
    IN  [connect |-> "ok", u1 |-> u1, u2 |-> u2,
         resp |-> resp \o [i \in 1..(RecvMax - Len(resp)) |-> 0], cut |-> RecvMax]

Whole(u1, u2) == 2 + BlankLen + 2 * Len(u1) + 2 + 2 * Len(u2)

\* the server answers in full
GoodInputs ==
    {HandshakeInput("ok", UrlA, CdnA, Whole(UrlA, CdnA)),
     HandshakeInput("ok", UrlB, CdnB, Whole(UrlB, CdnB))}

\* the handshakes of the life-cycle runs: full answers, an answer of which
\* only a part arrives (nothing, up to the end of the first URL, all but the
\* last code unit, all but the last byte), a refused connection
LifeInputs ==
    GoodInputs
    \cup {HandshakeInput("ok", UrlB, CdnB, n) :
            n \in {0, 2 + BlankLen + 2 * Len(UrlB), Whole(UrlB, CdnB) - 2,
                   Whole(UrlB, CdnB) - 1}}
    \cup {HandshakeInput("ConnectionRefusedError", UrlA, CdnA, 0)}

\* the values of the reserved bytes in the runs on the reserved fields
ReservedBytes == {0, 2, 255}

\* the URLs of the runs on the reserved fields
ReservedUrls == {<<>>, <<97>>, <<98, 47>>}

\* a handshake whose response carries the given reserved fields
ReservedInput(status, fill, between, u1, u2, cut) ==
    [connect |-> "ok", u1 |-> u1, u2 |-> u2,
     resp |-> WithReserved(HandshakeResponse(status, fill, u1, u2), status, fill, between),
     cut |-> cut]

\* the code units of the URLs of the parsing runs: 'a', U+FEFF, U+FFFE
UrlUnits == {97, 65279, 65534}
Strs(n) == UNION {[1..k -> UrlUnits] : k \in 0..n}
LongUrl == [i \in 1..MaxByte |-> 97]

\* the numbers of bytes that arrive, in the parsing runs: every number up to
\* the size of the largest response
ParseCuts == 0..(Whole(<<>>, <<>>) + 4 * MaxUrlLen)


\* characters of a patch_url, in the runs on version
MaxVersionUrlLen == 5
\* '/', '1', '.'
VersionUnits == {Slash, 49, 46}
VersionUrls == UNION {[1..k -> VersionUnits] : k \in 0..MaxVersionUrlLen}

\* what a GET can meet, in the runs on download_raw: 200 with and without
\* bytes, 204, 206, an HTTP error status, a refused connection, another
\* URLError, an error that is no URLError
FetchOutcomes ==
    {Response(200, <<65>>), Response(200, <<>>), Response(204, <<>>),
     Response(206, <<65>>), HTTPError(404), URLError("ConnectionRefusedError"),
     URLError("timeout"), OtherError("timeout")}
\* the base URLs the master server announces in these runs: two different
\* ones, or the same one twice
FetchUrls == {UrlA, CdnA}

\* descriptors obtained from socket_fd_open and detached, in one run
MaxDetached == 1

\* calls on the ConfigHelper in one process
MaxConfigCalls == 3

\* the configs a command-line process starts with: each option configured as
\* "a" or missing, the setup of temp_dir registered, performed or pending
StartConfigs ==
    {add_setup_listener(
        register_setup([NoConfig EXCEPT !.setup = st, !.option = [k \in ks |-> "a"],
                                        !.file = [setup |-> st, option |-> [k \in ks |-> "a"]]],
                       "temp_dir", WikiSetup),
        "version", "_ver_dist_changed") :
        ks \in SUBSET OptionKeys,
        st \in {NoEntries} \cup {[k \in SetupKeys |-> b] : b \in BOOLEAN}}

\* the setup functions that can raise in a run
SetupFuncs == {"_setup"}

\* runs of SetupHandler.setup in one process
MaxSetupRuns == 2

\* register_setup calls and setup runs in one run on the registrations
MaxRegisterCalls == 2

\* the configs of the runs on the registrations: the Setup section as the
\* file gave it (empty, temp_dir, temp_dir and out_dir, performed or
\* pending), nothing registered yet, each option stored or missing
FileConfigs ==
    {[NoConfig EXCEPT !.setup = st, !.option = [k \in ks |-> "a"],
                      !.file = [setup |-> st, option |-> [k \in ks |-> "a"]]] :
        ks \in SUBSET OptionKeys,
        st \in {NoEntries} \cup [{"temp_dir"} -> BOOLEAN]
                \cup [{"temp_dir", "out_dir"} -> BOOLEAN]}

\* set_option calls in one run on the listeners
MaxSetCalls == 2

\* the listeners added, in this order, in the runs on the listeners: two for
\* version (the one of WikiHandler first), one for temp_dir, or only a part
ListenerLists ==
    {<<>>,
     << <<"version", "_ver_dist_changed">> >>,
     << <<"version", "_ver_dist_changed">>, <<"temp_dir", "on_temp_dir">> >>,
     << <<"version", "_ver_dist_changed">>, <<"temp_dir", "on_temp_dir">>,
        <<"version", "on_version">> >>,
     << <<"version", "on_version">>, <<"version", "_ver_dist_changed">> >>}

RECURSIVE AddListeners(_, _)
AddListeners(cfg, regs) ==
    IF regs = <<>> THEN cfg
    ELSE AddListeners(add_setup_listener(cfg, Head(regs)[1], Head(regs)[2]), Tail(regs))

\* the configs of the runs on the listeners: temp_dir and version stored as
\* "a" or "b", the setup of temp_dir performed
ListenerConfigs ==
    {AddListeners(register_setup([NoConfig EXCEPT
                                     !.setup = [k \in SetupKeys |-> TRUE],
                                     !.option = opt,
                                     !.file = [setup |-> [k \in SetupKeys |-> TRUE],
                                               option |-> opt]],
                                 "temp_dir", WikiSetup),
                  regs) :
        opt \in [OptionKeys -> {"a", "b"}], regs \in ListenerLists}

\* the functions registered for temp_dir and for out_dir in the runs on
\* SetupHandler.setup: none, one or two each
TempDirFuncs == {<<>>, <<"f1">>, <<"f1", "f2">>}
OutDirFuncs == {<<"g1">>, <<"g1", "g2">>}
LoopFuncs == {"f1", "f2", "g1", "g2"}

\* the configs of the runs on SetupHandler.setup: the Setup section holds
\* temp_dir and out_dir, each performed or pending; setup functions are
\* registered for both keys or for out_dir only
LoopConfigs ==
    {register_setup(c, "out_dir", gs) :
        c \in {[NoConfig EXCEPT !.setup = st, !.file = [setup |-> st, option |-> NoEntries]] :
                  st \in [{"temp_dir", "out_dir"} -> BOOLEAN]}
              \cup {register_setup([NoConfig EXCEPT
                                      !.setup = st,
                                      !.file = [setup |-> st, option |-> NoEntries]],
                                   "temp_dir", fs) :
                       st \in [{"temp_dir", "out_dir"} -> BOOLEAN], fs \in TempDirFuncs},
        gs \in OutDirFuncs}

Argvs ==
    {Argv("none", "", "", {}), Argv("bad", "", "", {}), Argv("dat", "", "", {})}
    \cup {Argv("get", k, "", {}) : k \in OptionKeys}
    \cup {Argv("set", k, v, {}) : k \in OptionKeys, v \in Values}
    \cup {Argv("setup", "", "", f) : f \in SUBSET SetupFuncs}

\* download calls in one run of the repeated downloads
MaxRepeats == 2
\* the destinations of the repeated downloads: dst_dir "d", dst_dir "d/e",
\* dst_file "t/u/f"
RepeatDsts ==
    {[dst_dir |-> <<100>>, dst_file |-> None],
     [dst_dir |-> <<100, 47, 101>>, dst_file |-> None],
     [dst_dir |-> None, dst_file |-> <<116, 47, 117, 47, 102>>]}
\* what a GET to the CDN can meet in the repeated downloads
RepeatOutcomes == {Response(200, <<65>>), Response(200, <<67>>), HTTPError(404)}

\* the handshakes of the two threads: full answers, nothing arriving, a
\* refused connection
ThreadInputs ==
    GoodInputs
    \cup {HandshakeInput("ok", UrlB, CdnB, 0),
          HandshakeInput("ConnectionRefusedError", UrlA, CdnA, 0)}

\* download arguments: "a", "s/a"; None, "d"; None, "f", "t/f"
FilePaths == {<<97>>, <<115, 47, 97>>}

\* the file paths of the runs on the write path: "a", "s/a", "s/../a", "/a",
\* "../a", "s/../../a"
AnyFilePaths ==
    {<<97>>, <<115, 47, 97>>, <<115, 47, 46, 46, 47, 97>>, <<47, 97>>,
     <<46, 46, 47, 97>>, <<115, 47, 46, 46, 47, 46, 46, 47, 97>>}
DstDirs == {None, <<100>>}
DstFiles == {None, <<102>>, <<116, 47, 102>>}

\* response bodies
Bodies == {<<65>>}
\* the content of the files that exist before the first call
Old == <<79>>

\* what a GET to the CDN can meet
CdnOutcomes ==
    {Response(200, b) : b \in Bodies}
    \cup {Response(204, <<>>), HTTPError(404), URLError("ConnectionRefusedError"),
          URLError("timeout"), OtherError("timeout")}

\* what a GET to the master server can meet
MasterOutcomes ==
    {Response(200, <<66>>), HTTPError(404), URLError("ConnectionRefusedError")}

\* the filesystems a run starts from: nothing but the working directory; a file
\* "f" in it; a file "t" in it; the directory "d" with the file "d/a"
InitialFs ==
    {[files |-> EmptyFiles, dirs |-> {<<>>, Cwd}],
     [files |-> [q \in {Cwd \o << <<102>> >>} |-> Old], dirs |-> {<<>>, Cwd}],
     [files |-> [q \in {Cwd \o << <<116>> >>} |-> Old], dirs |-> {<<>>, Cwd}],
     [files |-> [q \in {Cwd \o << <<100>>, <<97>> >>} |-> Old],
      dirs |-> {<<>>, Cwd, Cwd \o << <<100>> >>}]}

-----------------------------------------------------------------------------
(* State *)

NoLast ==
    [op |-> "none", o |-> 0, outcome |-> "none", exc |-> NoExc, value |-> None,
     reqs |-> <<>>, net |-> <<>>, file_path |-> None, dst_dir |-> None, dst_file |-> None,
     write_path |-> None, files_before |-> EmptyFiles, dirs_before |-> {},
     u1 |-> None, u2 |-> None, received |-> <<>>, hs |-> 0,
     fd |-> NoFd, conn |-> 0, sockops |-> <<>>,
     key |-> "", safe |-> FALSE, ran |-> {}, argv |-> "",
     called |-> <<>>, fails |-> {}, arg |-> ""]

\* the command-line process before it starts, with the config c
Started(c) ==
    [state |-> "running", code |-> 0, validated |-> FALSE, written |-> FALSE,
     calls |-> 0, start |-> c]

\* no command-line application
NoCli ==
    /\ config = NoConfig
    /\ proc = Started(NoConfig)

\* a thread that is not inside a handshake or a release
Idle == [pc |-> "idle", fd |-> NoFd]

NoObjects ==
    /\ obj_state = [o \in Objs |-> "none"]
    /\ patch_url = [o \in Objs |-> Unset]
    /\ patch_cdn_url = [o \in Objs |-> Unset]
    /\ sock_fd = [o \in Objs |-> NoFd]
    /\ url_hs = [o \in Objs |-> 0]
    /\ cdn_hs = [o \in Objs |-> 0]
    /\ fdtab = EmptyTab
    /\ conns = <<>>
    /\ thr = [o \in Objs |-> Idle]
    /\ NoCli

\* before the first Patch object is constructed
Init ==
    /\ NoObjects
    /\ files = EmptyFiles
    /\ dirs = {<<>>, Cwd}
    /\ ncalls = 0
    /\ last = NoLast

\* a Patch object that exists after a successful construction, in each of the
\* initial filesystems
InitDownload ==
    \E fs0 \in InitialFs :
        LET r == update_patch_urls(HandshakeInput("ok", UrlA, CdnA, Whole(UrlA, CdnA)),
                                   EmptyTab, <<>>)
        IN  /\ obj_state = [o \in Objs |-> IF o = 1 THEN "constructed" ELSE "none"]
            /\ patch_url = [o \in Objs |-> IF o = 1 THEN r.patch_url ELSE Unset]
            /\ patch_cdn_url = [o \in Objs |-> IF o = 1 THEN r.patch_cdn_url ELSE Unset]
            /\ sock_fd = [o \in Objs |-> IF o = 1 THEN r.sock_fd ELSE NoFd]
            /\ url_hs = [o \in Objs |-> IF o = 1 THEN r.hs ELSE 0]
            /\ cdn_hs = [o \in Objs |-> IF o = 1 THEN r.hs ELSE 0]
            /\ fdtab = r.fdtab
            /\ conns = r.conns
            /\ thr = [o \in Objs |-> Idle]
            /\ files = fs0.files
            /\ dirs = fs0.dirs
            /\ ncalls = 0
            /\ last = NoLast
            /\ NoCli

\* object 1 exists after a construction whose handshake read inp, object 2
\* does not exist, and the filesystem is fs0
Constructed(inp, fs0) ==
    LET r == update_patch_urls(inp, EmptyTab, <<>>)
    IN  /\ r.outcome = "return"
        /\ obj_state = [o \in Objs |-> IF o = 1 THEN "constructed" ELSE "none"]
        /\ patch_url = [o \in Objs |-> IF o = 1 THEN r.patch_url ELSE Unset]
        /\ patch_cdn_url = [o \in Objs |-> IF o = 1 THEN r.patch_cdn_url ELSE Unset]
        /\ sock_fd = [o \in Objs |-> IF o = 1 THEN r.sock_fd ELSE NoFd]
        /\ url_hs = [o \in Objs |-> IF o = 1 THEN r.hs ELSE 0]
        /\ cdn_hs = [o \in Objs |-> IF o = 1 THEN r.hs ELSE 0]
        /\ fdtab = r.fdtab
        /\ conns = r.conns
        /\ thr = [o \in Objs |-> Idle]
        /\ files = fs0.files
        /\ dirs = fs0.dirs
        /\ ncalls = 0
        /\ last = NoLast
        /\ NoCli

\* the state in which the command-line application has the config c
CliWith(c) ==
    /\ obj_state = [o \in Objs |-> "none"]
    /\ patch_url = [o \in Objs |-> Unset]
    /\ patch_cdn_url = [o \in Objs |-> Unset]
    /\ sock_fd = [o \in Objs |-> NoFd]
    /\ url_hs = [o \in Objs |-> 0]
    /\ cdn_hs = [o \in Objs |-> 0]
    /\ fdtab = EmptyTab
    /\ conns = <<>>
    /\ thr = [o \in Objs |-> Idle]
    /\ files = EmptyFiles
    /\ dirs = {<<>>, Cwd}
    /\ ncalls = 0
    /\ last = NoLast
    /\ config = c
    /\ proc = Started(c)

\* no Patch object; the command-line application has read its config
InitCli == \E c \in StartConfigs : CliWith(c)

\* no Patch object; the config was read from its file
InitRegister == \E c \in FileConfigs : CliWith(c)

\* no Patch object; listeners were added to the config
InitListeners == \E c \in ListenerConfigs : CliWith(c)

\* no Patch object; the setups of temp_dir and out_dir are registered
InitLoop == \E c \in LoopConfigs : CliWith(c)

\* a Patch object constructed from a server that sends the patch_url u
InitVersion ==
    \E u \in VersionUrls :
        Constructed(HandshakeInput("ok", u, CdnA, Whole(u, CdnA)),
                    [files |-> EmptyFiles, dirs |-> {<<>>, Cwd}])

\* a Patch object constructed from a server that announces u1 and u2
InitFetch ==
    \E u1 \in FetchUrls, u2 \in FetchUrls :
        Constructed(HandshakeInput("ok", u1, u2, Whole(u1, u2)),
                    [files |-> EmptyFiles, dirs |-> {<<>>, Cwd}])

\* a Patch object after a successful construction, in each of the initial
\* filesystems
InitRepeat ==
    \E fs0 \in InitialFs :
        Constructed(HandshakeInput("ok", UrlA, CdnA, Whole(UrlA, CdnA)), fs0)

-----------------------------------------------------------------------------
(* Operations *)

\* the handshake of object o, called as `op`, on the socket object with
\* descriptor fd: each attribute the call assigned takes its new value, the
\* others keep theirs
HandshakeOn(o, fd, inp, op) ==
    LET r == update_patch_urls_on(fd, inp, fdtab, conns)
    IN  /\ Len(conns) < MaxHandshakes
        /\ patch_url' = [patch_url EXCEPT ![o] = IF r.patch_url /= Unset THEN r.patch_url ELSE @]
        /\ url_hs' = [url_hs EXCEPT ![o] = IF r.patch_url /= Unset THEN r.hs ELSE @]
        /\ patch_cdn_url' =
              [patch_cdn_url EXCEPT ![o] = IF r.patch_cdn_url /= Unset THEN r.patch_cdn_url ELSE @]
        /\ cdn_hs' = [cdn_hs EXCEPT ![o] = IF r.patch_cdn_url /= Unset THEN r.hs ELSE @]
        /\ sock_fd' = [sock_fd EXCEPT ![o] = IF r.sock_fd /= NoFd THEN r.sock_fd ELSE @]
        /\ fdtab' = r.fdtab
        /\ conns' = r.conns
        /\ obj_state' = [obj_state EXCEPT ![o] =
                            IF op = "__init__" /\ r.outcome = "raise" THEN "failed"
                            ELSE "constructed"]
        /\ last' = [NoLast EXCEPT !.op = op, !.o = o, !.outcome = r.outcome,
                                  !.exc = r.exc, !.u1 = inp.u1, !.u2 = inp.u2,
                                  !.received = r.received, !.hs = r.hs,
                                  !.fd = r.sock_fd, !.conn = r.hs,
                                  !.sockops = r.sockops]
        /\ UNCHANGED <<fsvars, clivars, ncalls>>

\* the handshake run in one piece by a thread that is alone
Handshake(o, inp, op) ==
    /\ thr[o] = Idle
    /\ HandshakeOn(o, LowestFree(fdtab), inp, op)
    /\ UNCHANGED thr

\* Patch(...): __init__ runs the handshake; when it raises the caller gets no
\* object, and the half-built one is left to the collector
Patch_init(o, inp) ==
    /\ obj_state[o] = "none"
    /\ Handshake(o, inp, "__init__")

\* patch.update_patch_urls() on a constructed object
Patch_update_patch_urls(o, inp) ==
    /\ obj_state[o] = "constructed"
    /\ Handshake(o, inp, "update_patch_urls")

ConnOf(fd) == IF fd \in DOMAIN fdtab THEN fdtab[fd] ELSE 0

\* Patch.__del__, run once when the object is discarded
Patch_del(o, close_ok) ==
    LET r == patch_del(sock_fd[o], fdtab, conns, close_ok)
    IN  /\ obj_state[o] \in {"constructed", "failed"}
        /\ thr[o] = Idle
        /\ obj_state' = [obj_state EXCEPT ![o] = "deleted"]
        /\ fdtab' = r.fdtab
        /\ conns' = r.conns
        /\ last' = [NoLast EXCEPT !.op = "__del__", !.o = o, !.outcome = r.outcome,
                                  !.exc = r.exc, !.fd = sock_fd[o],
                                  !.conn = ConnOf(sock_fd[o]), !.sockops = r.sockops]
        /\ UNCHANGED <<patch_url, patch_cdn_url, sock_fd, url_hs, cdn_hs, thr, fsvars, clivars,
                       ncalls>>

\* socket_fd_close(fd) called on an open descriptor
SocketFdClose(fd, close_ok) ==
    LET r == socket_fd_close(fd, fdtab, conns, close_ok)
    IN  /\ fd \in DOMAIN fdtab
        /\ fdtab' = r.fdtab
        /\ conns' = r.conns
        /\ last' = [NoLast EXCEPT !.op = "socket_fd_close", !.outcome = r.outcome,
                                  !.exc = r.exc, !.fd = fd, !.conn = ConnOf(fd),
                                  !.sockops = r.sockops]
        /\ UNCHANGED <<objvars, fsvars, clivars, ncalls>>

\* sock = socket_fd_open(patch.sock_fd); fd = sock.detach(): the caller holds
\* a second descriptor of the handshake connection
SocketFdOpenDetach(o) ==
    LET w == socket_fd_open(sock_fd[o], fdtab)
    IN  /\ obj_state[o] = "constructed"
        /\ thr[o] = Idle
        /\ Cardinality(DOMAIN fdtab) <= MaxDetached
        /\ w.ok
        /\ fdtab' = w.fdtab
        /\ last' = [NoLast EXCEPT !.op = "socket_fd_open", !.o = o, !.outcome = "return",
                                  !.fd = w.fd, !.conn = w.fdtab[w.fd],
                                  !.sockops = <<SockOp("fromfd", sock_fd[o], TRUE),
                                                SockOp("detach", w.fd, TRUE)>>]
        /\ UNCHANGED <<objvars, conns, fsvars, clivars, ncalls>>

\* the master server closes ("closed": FIN) or resets ("reset": RST) connection c
PeerEnds(c, how) ==
    /\ c \in 1..Len(conns)
    /\ conns[c].peer = "open"
    /\ conns' = [conns EXCEPT ![c].peer = how]
    /\ UNCHANGED <<objvars, fdtab, fsvars, clivars, ncalls, last>>

\* the servers during one call: a GET to the CDN meets oc_cdn, a GET to the
\* master server oc_master
Net(o, oc_cdn, oc_master) ==
    [h \in {patch_cdn_url[o], patch_url[o]} |->
        IF h = patch_cdn_url[o] THEN oc_cdn ELSE oc_master]

\* patch.download(file_path, dst_dir, dst_file)
Patch_download(o, file_path, dst_dir, dst_file, net) ==
    LET r == download(patch_cdn_url[o], patch_url[o], file_path, dst_dir, dst_file,
                      net, files, dirs)
    IN  /\ obj_state[o] = "constructed"
        /\ thr[o] = Idle
        /\ ncalls' = ncalls + 1
        /\ files' = r.files
        /\ dirs' = r.dirs
        /\ last' = [NoLast EXCEPT !.op = "download", !.o = o, !.outcome = r.outcome,
                                  !.exc = r.exc, !.reqs = r.reqs, !.net = net,
                                  !.file_path = file_path, !.dst_dir = dst_dir,
                                  !.dst_file = dst_file, !.write_path = r.write_path,
                                  !.files_before = files, !.dirs_before = dirs]
        /\ UNCHANGED <<objvars, netvars, clivars>>

\* Patch_download_raw fetching over the connection of the handshake: one more
\* send and one more recv on it
Patch_download_raw_over_session(o, file_path, net) ==
    LET r == download_raw(patch_cdn_url[o], patch_url[o], file_path, net)
        c == fdtab[sock_fd[o]]
    IN  /\ obj_state[o] = "constructed"
        /\ thr[o] = Idle
        /\ ncalls' = ncalls + 1
        /\ conns' = [conns EXCEPT ![c].sent = @ \o file_path, ![c].recvs = @ + 1]
        /\ last' = [NoLast EXCEPT !.op = "download_raw", !.o = o, !.outcome = r.outcome,
                                  !.exc = r.exc, !.value = r.value, !.reqs = r.reqs,
                                  !.net = net, !.file_path = file_path,
                                  !.files_before = files, !.dirs_before = dirs]
        /\ UNCHANGED <<objvars, fdtab, fsvars, clivars>>

\* patch.download_raw(file_path)
Patch_download_raw(o, file_path, net) ==
    LET r == download_raw(patch_cdn_url[o], patch_url[o], file_path, net)
    IN  /\ obj_state[o] = "constructed"
        /\ thr[o] = Idle
        /\ ncalls' = ncalls + 1
        /\ last' = [NoLast EXCEPT !.op = "download_raw", !.o = o, !.outcome = r.outcome,
                                  !.exc = r.exc, !.value = r.value, !.reqs = r.reqs,
                                  !.net = net, !.file_path = file_path,
                                  !.files_before = files, !.dirs_before = dirs]
        /\ UNCHANGED <<objvars, netvars, fsvars, clivars>>

\* patch.version
Patch_version(o) ==
    /\ obj_state[o] = "constructed"
    /\ thr[o] = Idle
    /\ ncalls' = ncalls + 1
    /\ last' = [NoLast EXCEPT !.op = "version", !.o = o, !.outcome = "return",
                              !.value = version(patch_url[o]),
                              !.files_before = files, !.dirs_before = dirs]
    /\ UNCHANGED <<objvars, netvars, fsvars, clivars>>

-----------------------------------------------------------------------------
(* The socket calls of a construction and of a release, one step each, as   *)
(* the thread that owns object o makes them among the steps of the other    *)
(* thread                                                                   *)

ThreadStep(op, o, outcome, exc, fd) ==
    [NoLast EXCEPT !.op = op, !.o = o, !.outcome = outcome, !.exc = exc, !.fd = fd,
                   !.conn = ConnOf(fd)]

\* Patch(...): socket.socket(proto=IPPROTO_TCP) takes the lowest free
\* descriptor; the socket is not connected yet (connection 0)
T_socket(o) ==
    LET fd == LowestFree(fdtab)
    IN  /\ obj_state[o] = "none"
        /\ thr[o] = Idle
        /\ fdtab' = Bind(fdtab, fd, 0)
        /\ thr' = [thr EXCEPT ![o] = [pc |-> "socket", fd |-> fd]]
        /\ last' = ThreadStep("socket", o, "return", NoExc, fd)
        /\ UNCHANGED <<obj_state, patch_url, patch_cdn_url, sock_fd, url_hs, cdn_hs,
                       conns, fsvars, clivars, ncalls>>

\* Patch(...): the rest of the with block on the thread's socket
T_handshake(o, inp) ==
    /\ thr[o].pc = "socket"
    /\ HandshakeOn(o, thr[o].fd, inp, "__init__")
    /\ thr' = [thr EXCEPT ![o] = Idle]

\* T_fromfd with the descriptor kept in one place for all objects: every
\* release wraps the descriptor of object 1
T_fromfd_shared(o) ==
    LET w == socket_fd_open(sock_fd[1], fdtab)
    IN  /\ obj_state[o] = "constructed"
        /\ thr[o] = Idle
        /\ w.ok
        /\ fdtab' = w.fdtab
        /\ thr' = [thr EXCEPT ![o] = [pc |-> "wrapped", fd |-> w.fd]]
        /\ last' = ThreadStep("fromfd", o, "return", NoExc, sock_fd[1])
        /\ UNCHANGED <<obj_state, patch_url, patch_cdn_url, sock_fd, url_hs, cdn_hs,
                       conns, fsvars, clivars, ncalls>>

\* __del__: socket_fd_open(self.sock_fd) duplicates the object's descriptor
T_fromfd(o) ==
    LET w == socket_fd_open(sock_fd[o], fdtab)
    IN  /\ obj_state[o] = "constructed"
        /\ thr[o] = Idle
        /\ w.ok
        /\ fdtab' = w.fdtab
        /\ thr' = [thr EXCEPT ![o] = [pc |-> "wrapped", fd |-> w.fd]]
        /\ last' = ThreadStep("fromfd", o, "return", NoExc, sock_fd[o])
        /\ UNCHANGED <<obj_state, patch_url, patch_cdn_url, sock_fd, url_hs, cdn_hs,
                       conns, fsvars, clivars, ncalls>>

\* __del__: sock.shutdown(SHUT_RDWR), its OSError passed over
T_shutdown(o) ==
    LET sh == sock_shutdown(fdtab[thr[o].fd], conns)
    IN  /\ thr[o].pc = "wrapped"
        /\ conns' = sh.conns
        /\ thr' = [thr EXCEPT ![o].pc = "shutdown"]
        /\ last' = ThreadStep("shutdown", o, "return", NoExc, thr[o].fd)
        /\ UNCHANGED <<obj_state, patch_url, patch_cdn_url, sock_fd, url_hs, cdn_hs,
                       fdtab, fsvars, clivars, ncalls>>

\* __del__: sock.close(), its OSError raised
T_close(o, close_ok) ==
    /\ thr[o].pc = "shutdown"
    /\ fdtab' = Unbind(fdtab, thr[o].fd)
    /\ thr' = [thr EXCEPT ![o] = Idle]
    /\ obj_state' = [obj_state EXCEPT ![o] = "deleted"]
    /\ last' = ThreadStep("__del__", o, IF close_ok THEN "return" ELSE "raise",
                          IF close_ok THEN NoExc ELSE Exc("OSError", "close", 5),
                          thr[o].fd)
    /\ UNCHANGED <<patch_url, patch_cdn_url, sock_fd, url_hs, cdn_hs, conns, fsvars, clivars,
                   ncalls>>

-----------------------------------------------------------------------------
(* The calls on the ConfigHelper and run *)

\* a call on the config, with the value arg, that ended as r; the functions in
\* fails raise
ConfigCallArg(op, key, safe, r, ran, fails, arg) ==
    /\ proc.state = "running"
    /\ config' = r.config
    /\ proc' = [proc EXCEPT !.calls = @ + 1,
                            !.state = IF r.outcome = "exit" THEN "exited" ELSE @,
                            !.code = IF r.outcome = "exit" THEN r.exc.code ELSE @]
    /\ last' = [NoLast EXCEPT !.op = op, !.outcome = r.outcome, !.exc = r.exc,
                              !.value = r.value, !.key = key, !.safe = safe, !.ran = ran,
                              !.called = r.called, !.fails = fails, !.arg = arg]
    /\ UNCHANGED <<objvars, netvars, fsvars, ncalls>>

ConfigCallOf(op, key, safe, r, ran, fails) == ConfigCallArg(op, key, safe, r, ran, fails, "")

ConfigCall(op, key, safe, r, ran) == ConfigCallOf(op, key, safe, r, ran, {})

\* config.set_option(key, value)
Config_set_option(key, value) ==
    ConfigCallArg("set_option", key, FALSE, set_option(config, key, value), {}, {}, value)

\* config.get_option(key, safe)
Config_get_option(key, safe) ==
    ConfigCall("get_option", key, safe, get_option(config, key, safe), {})

\* config.is_setup(key)
Config_is_setup(key) ==
    ConfigCall("is_setup", key, FALSE, is_setup(config, key), {})

\* SetupHandler.setup(args), the setup functions of the keys in fails raising
Setup_perform(fails) ==
    ConfigCallOf("setup", "", FALSE, SetupHandler_setup(config, fails),
                 SetupRan(config, fails), fails)

\* config.register_setup(key, funcs)
Config_register_setup(key, funcs) ==
    ConfigCall("register_setup", key, FALSE,
               CliResult(register_setup(config, key, funcs), "return", NoExc, None), {})

\* run(parser, config) with the command line argv: the process ends
Run(argv) ==
    LET r == run(config, argv)
    IN  /\ proc.state = "running"
        /\ proc.calls = 0
        /\ config' = r.config
        /\ proc' = [proc EXCEPT !.state = "exited", !.code = r.code, !.calls = 1,
                                !.validated = r.validated, !.written = r.written]
        /\ last' = [NoLast EXCEPT !.op = "run", !.outcome = "exit", !.argv = argv.cmd,
                                  !.key = argv.key, !.value = argv.value,
                                  !.exc = IF argv.cmd \in {"none", "bad"} THEN NoExc
                                          ELSE Handler(config, argv).exc]
        /\ UNCHANGED <<objvars, netvars, fsvars, ncalls>>

-----------------------------------------------------------------------------
(* Specifications *)

\* the life cycle of the Patch objects: construction, re-discovery, release
Next ==
    \/ \E inp \in LifeInputs : Patch_init(1, inp)
    \/ \E inp \in LifeInputs : Patch_update_patch_urls(1, inp)
    \/ \E close_ok \in BOOLEAN : Patch_del(1, close_ok)
    \/ \E fd \in DOMAIN fdtab, close_ok \in BOOLEAN : SocketFdClose(fd, close_ok)
    \/ \E c \in 1..Len(conns), how \in {"closed", "reset"} : PeerEnds(c, how)

Spec == Init /\ [][Next]_vars

\* one construction, over the handshakes of the parsing runs: every pair of
\* short URLs with each number of bytes arriving, the padded responses of the
\* pairs of URLs of at most one code unit, and one pair of URLs of the largest
\* length
NextParse ==
    \/ /\ obj_state[1] = "none"
       /\ \E u1 \in Strs(MaxUrlLen), u2 \in Strs(MaxUrlLen), n \in ParseCuts :
               Patch_init(1, HandshakeInput("ok", u1, u2, n))
    \/ /\ obj_state[1] = "none"
       /\ \E u1 \in Strs(1), u2 \in Strs(1) : Patch_init(1, PaddedInput(u1, u2))
    \/ Patch_init(1, HandshakeInput("ok", LongUrl, LongUrl, Whole(LongUrl, LongUrl)))
    \/ \E close_ok \in BOOLEAN : Patch_del(1, close_ok)

SpecParse == Init /\ [][NextParse]_vars

\* the calls on a constructed object
NextDownload ==
    \/ /\ ncalls < MaxCalls
       /\ \E fp \in FilePaths, dd \in DstDirs, df \in DstFiles,
             oc1 \in CdnOutcomes, oc2 \in MasterOutcomes :
               Patch_download(1, fp, dd, df, Net(1, oc1, oc2))
    \/ /\ ncalls < MaxCalls
       /\ \E fp \in FilePaths, oc1 \in CdnOutcomes, oc2 \in MasterOutcomes :
               Patch_download_raw(1, fp, Net(1, oc1, oc2))
    \/ ncalls < MaxCalls /\ Patch_version(1)

SpecDownload == InitDownload /\ [][NextDownload]_vars

\* download calls with dst_dir = "d" and any file path
NextWritePath ==
    /\ ncalls < MaxCalls
    /\ \E fp \in AnyFilePaths, oc1 \in CdnOutcomes, oc2 \in MasterOutcomes :
          Patch_download(1, fp, <<100>>, None, Net(1, oc1, oc2))

SpecWritePath == InitDownload /\ [][NextWritePath]_vars

\* download_raw calls on one object, with every answer of the two servers
NextFetch ==
    /\ ncalls < MaxCalls
    /\ \E fp \in FilePaths, oc1 \in FetchOutcomes, oc2 \in FetchOutcomes :
            Patch_download_raw(1, fp, Net(1, oc1, oc2))

SpecFetch == InitFetch /\ [][NextFetch]_vars

\* one object, descriptors taken from it with socket_fd_open and detach,
\* socket_fd_close on the open descriptors, the release of the object
NextFdClose ==
    \/ /\ obj_state[1] = "none"
       /\ \E inp \in LifeInputs : Patch_init(1, inp)
    \/ SocketFdOpenDetach(1)
    \/ \E fd \in DOMAIN fdtab, close_ok \in BOOLEAN : SocketFdClose(fd, close_ok)
    \/ \E close_ok \in BOOLEAN : Patch_del(1, close_ok)
    \/ \E c \in 1..Len(conns), how \in {"closed", "reset"} : PeerEnds(c, how)

SpecFdClose == Init /\ [][NextFdClose]_vars

\* one construction, the response carrying any reserved bytes and arriving
\* whole or in part
NextReserved ==
    /\ obj_state[1] = "none"
    /\ \E status \in ReservedBytes, fill \in ReservedBytes, between \in ReservedBytes,
          u1 \in ReservedUrls, u2 \in ReservedUrls :
          \E cut \in {1, 1 + BlankLen, 2 + BlankLen + 2 * Len(u1), Whole(u1, u2) - 1,
                       Whole(u1, u2)} :
              Patch_init(1, ReservedInput(status, fill, between, u1, u2, cut))

SpecReserved == Init /\ [][NextReserved]_vars

\* the calls of one process on its ConfigHelper
NextSetup ==
    \/ /\ proc.calls < MaxConfigCalls
       /\ \E key \in OptionKeys, value \in Values : Config_set_option(key, value)
    \/ /\ proc.calls < MaxConfigCalls
       /\ \E key \in OptionKeys, safe \in BOOLEAN : Config_get_option(key, safe)
    \/ /\ proc.calls < MaxConfigCalls
       /\ \E key \in OptionKeys : Config_is_setup(key)
    \/ /\ proc.calls < MaxConfigCalls
       /\ \E fails \in SUBSET SetupFuncs : Setup_perform(fails)

SpecSetup == InitCli /\ [][NextSetup]_vars

\* runs of SetupHandler.setup, any of the setup functions raising
NextLoop ==
    /\ proc.calls < MaxSetupRuns
    /\ \E fails \in SUBSET LoopFuncs : Setup_perform(fails)

SpecLoop == InitLoop /\ [][NextLoop]_vars

\* registrations of setups and runs of SetupHandler.setup
NextRegister ==
    \/ /\ proc.calls < MaxRegisterCalls
       /\ \E key \in {"temp_dir", "out_dir"}, funcs \in TempDirFuncs \cup OutDirFuncs :
             Config_register_setup(key, funcs)
    \/ /\ proc.calls < MaxRegisterCalls
       /\ \E fails \in SUBSET LoopFuncs : Setup_perform(fails)

SpecRegister == InitRegister /\ [][NextRegister]_vars

\* set_option calls on a config with listeners
NextListeners ==
    /\ proc.calls < MaxSetCalls
    /\ \E key \in OptionKeys, value \in Values : Config_set_option(key, value)

SpecListeners == InitListeners /\ [][NextListeners]_vars

\* one command-line process: run(parser, config)
NextRun == \E argv \in Argvs : Run(argv)

SpecRun == InitCli /\ [][NextRun]_vars

\* downloads one after the other on one object
NextRepeat ==
    /\ ncalls < MaxRepeats
    /\ \E fp \in FilePaths, dst \in RepeatDsts, oc \in RepeatOutcomes :
            Patch_download(1, fp, dst.dst_dir, dst.dst_file,
                           Net(1, oc, Response(200, <<66>>)))

SpecRepeat == InitRepeat /\ [][NextRepeat]_vars

\* two threads, each with its own Patch object: construction, calls and
\* release of the two, their socket calls interleaved
ThreadNext(o) ==
    \/ T_socket(o)
    \/ \E inp \in ThreadInputs : T_handshake(o, inp)
    \/ /\ ncalls < MaxCalls
       /\ \E oc \in {Response(200, <<65>>), URLError("ConnectionRefusedError")} :
               Patch_download_raw(o, <<97>>, Net(o, oc, Response(200, <<66>>)))
    \/ /\ ncalls < MaxCalls
       /\ Patch_download(o, <<97>>, <<100>>, None,
                         Net(o, Response(200, <<65>>), Response(200, <<66>>)))
    \/ ncalls < MaxCalls /\ Patch_version(o)
    \/ T_fromfd(o)
    \/ T_shutdown(o)
    \/ \E close_ok \in BOOLEAN : T_close(o, close_ok)

NextThreads ==
    \/ \E o \in Objs : ThreadNext(o)
    \/ \E c \in 1..Len(conns), how \in {"closed", "reset"} : PeerEnds(c, how)

SpecThreads == Init /\ [][NextThreads]_vars

\* version read from objects with every short patch_url
NextVersion == ncalls < MaxCalls /\ Patch_version(1)

SpecVersion == InitVersion /\ [][NextVersion]_vars

-----------------------------------------------------------------------------
(* Claims on download and download_raw, checked under SpecDownload *)

LastIs(op) == last.op = op
CdnOutcome == last.net[patch_cdn_url[last.o]]
MasterOutcome == last.net[patch_url[last.o]]
Is200(oc) == oc.kind = "response" /\ oc.code = 200

\* the last call was a download whose download_raw call raised
FetchRaised ==
    /\ LastIs("download")
    /\ last.outcome = "raise"
    /\ last.reqs /= <<>>
    /\ last.exc.type /= "TypeError"

\* the file at resolved path w is as it was before the last call
SameFileAsBefore(w) ==
    IF w \in DOMAIN last.files_before
    THEN w \in DOMAIN files /\ files[w] = last.files_before[w]
    ELSE w \notin DOMAIN files

\* C1: when the fetch of a download fails, the write path does not exist or
\* holds the content it had before the call
C1_NoPartialWrite == FetchRaised => SameFileAsBefore(Resolve(last.write_path))

\* C2: when the GET to the CDN and the GET to the master server are both
\* refused, download_raw raises an error that carries the refusal
C2_BothRefusedRaises ==
    (LastIs("download_raw") /\ IsRefused(CdnOutcome) /\ IsRefused(MasterOutcome))
        => (last.outcome = "raise" /\ last.exc.reason = "ConnectionRefusedError")

\* C3: when the GET to the CDN is refused and the master server answers 200,
\* download_raw returns the body of the master's response and raises nothing
C3_FallbackReturnsMasterBody ==
    (LastIs("download_raw") /\ IsRefused(CdnOutcome) /\ Is200(MasterOutcome))
        => /\ last.outcome = "return"
           /\ last.value = MasterOutcome.body
           /\ Len(last.reqs) = 2
           /\ last.reqs[2].url = patch_url[last.o] \o last.file_path

C3_Witness ==
    /\ LastIs("download_raw")
    /\ IsRefused(CdnOutcome)
    /\ Is200(MasterOutcome)
    /\ last.outcome = "return"
    /\ last.value = <<66>>

\* C4: when the GET to the CDN fails for a reason other than a refused
\* connection, download_raw raises that failure and no GET goes to the master
\* server
C4_OtherFailureShortCircuits ==
    (LastIs("download_raw") /\ ~Is200(CdnOutcome) /\ ~IsRefused(CdnOutcome))
        => /\ last.outcome = "raise"
           /\ Len(last.reqs) = 1
           /\ last.reqs[1].url = patch_cdn_url[last.o] \o last.file_path
           /\ (CdnOutcome.kind /= "response" => last.exc = ExcOf(CdnOutcome))

C4_Witness ==
    /\ LastIs("download_raw")
    /\ CdnOutcome = HTTPError(404)
    /\ Is200(MasterOutcome)
    /\ last.outcome = "raise"
    /\ last.exc.type = "HTTPError"

\* C21: a download_raw call sends its first GET to patch_cdn_url + file_path,
\* sends a GET to patch_url + file_path only after that first GET was refused,
\* and when the CDN answers 200 returns the body of that answer after this
\* one GET
C21_CdnFirstMasterOnRefusal ==
    LastIs("download_raw") =>
        /\ Len(last.reqs) >= 1
        /\ last.reqs[1].url = patch_cdn_url[last.o] \o last.file_path
        /\ \A i \in 2..Len(last.reqs) :
              /\ last.reqs[i].url = patch_url[last.o] \o last.file_path
              /\ IsRefused(last.reqs[1].oc)
        /\ Is200(CdnOutcome) =>
              /\ last.outcome = "return"
              /\ last.value = CdnOutcome.body
              /\ Len(last.reqs) = 1

\* the CDN answered 200 while the master server would have answered 200 with
\* other bytes
C21_Witness ==
    /\ LastIs("download_raw")
    /\ patch_url[last.o] /= patch_cdn_url[last.o]
    /\ CdnOutcome = Response(200, <<>>)
    /\ MasterOutcome = Response(200, <<65>>)
    /\ last.outcome = "return"
    /\ last.value = <<>>
    /\ Len(last.reqs) = 1

\* C22: download_raw returns bytes only from a response with status 200; a
\* response with another status makes it raise ValueError with that status,
\* and no GET follows it
C22_Non200Raises ==
    LastIs("download_raw") =>
        /\ (last.outcome = "return" /\ last.value /= None) =>
              /\ Is200(last.reqs[Len(last.reqs)].oc)
              /\ last.value = last.reqs[Len(last.reqs)].oc.body
        /\ \A i \in 1..Len(last.reqs) :
              (last.reqs[i].oc.kind = "response" /\ last.reqs[i].oc.code /= 200) =>
                  /\ i = Len(last.reqs)
                  /\ last.outcome = "raise"
                  /\ last.exc.type = "ValueError"
                  /\ last.exc.code = last.reqs[i].oc.code

\* the CDN answered 206 with bytes
C22_Witness ==
    /\ LastIs("download_raw")
    /\ CdnOutcome = Response(206, <<65>>)
    /\ last.outcome = "raise"
    /\ last.exc = Exc("ValueError", "HTTP response code", 206)
    /\ Len(last.reqs) = 1

\* C30: a download_raw call issues one or two GETs, no two of them to the
\* same URL
C30_AtMostTwoDistinctRequests ==
    LastIs("download_raw") =>
        /\ Len(last.reqs) \in {1, 2}
        /\ \A i, j \in 1..Len(last.reqs) :
              i /= j => last.reqs[i].url /= last.reqs[j].url

\* the kind of error that download raises for dst_dir and dst_file both left
\* out
InvalidArgsKind ==
    download(CdnA, UrlA, <<97>>, None, None, Net(1, Response(200, <<65>>), Response(200, <<66>>)),
             EmptyFiles, {<<>>, Cwd}).exc.type

\* the last call was a download or download_raw that failed with its GET
DownloadFailed ==
    /\ last.op \in {"download", "download_raw"}
    /\ last.outcome = "raise"
    /\ last.reqs /= <<>>
    /\ last.reqs[Len(last.reqs)].oc.kind /= "response"
          \/ last.reqs[Len(last.reqs)].oc.code /= 200

\* C23: the error of a failed download (a status other than 200, a failure of
\* the transport) is of another kind than the error raised for invalid
\* destination arguments
C23_ErrorKindsDistinct == DownloadFailed => last.exc.type /= InvalidArgsKind

NothingDone ==
    /\ last.reqs = <<>>
    /\ files = last.files_before
    /\ dirs = last.dirs_before

\* C5: download with dst_dir and dst_file both set raises ValueError before
\* any HTTP request and before any directory or file is created
C5_BothSetRaises ==
    (LastIs("download") /\ Truthy(last.dst_dir) /\ Truthy(last.dst_file))
        => (last.outcome = "raise" /\ last.exc.type = "ValueError" /\ NothingDone)

\* C6: download with neither dst_dir nor dst_file set raises ValueError
\* before any HTTP request, directory creation or file write
C6_NeitherSetRaises ==
    (LastIs("download") /\ last.dst_dir = None /\ last.dst_file = None)
        => (last.outcome = "raise" /\ last.exc.type = "ValueError" /\ NothingDone)

C6_Witness ==
    /\ LastIs("download")
    /\ last.dst_dir = None
    /\ last.dst_file = None
    /\ last.outcome = "raise"
    /\ Is200(CdnOutcome)

\* the bytes download_raw returned to the last download: the body of the
\* response to its last GET
FetchedBytes == last.reqs[Len(last.reqs)].oc.body

\* the files other than w are the files of before the last call, unchanged
OnlyFileTouched(w) ==
    /\ DOMAIN files = DOMAIN last.files_before \cup {w}
    /\ \A q \in DOMAIN last.files_before \ {w} : files[q] = last.files_before[q]

\* the resolved path r is base or lies below it
Inside(r, base) == Len(r) >= Len(base) /\ SubSeq(r, 1, Len(base)) = base

\* C37: after a download with dst_dir set, the write path, every file the
\* call created or changed and every directory it created lie inside dst_dir
C37_WritesInsideDstDir ==
    (LastIs("download") /\ Truthy(last.dst_dir))
        => LET base == Resolve(last.dst_dir)
           IN  /\ Inside(Resolve(last.write_path), base)
               /\ \A q \in DOMAIN files :
                     (q \notin DOMAIN last.files_before \/ files[q] /= last.files_before[q])
                        => Inside(q, base)
               /\ \A d \in dirs \ last.dirs_before : Inside(d, base)

\* C16: a download with dst_dir = d that succeeds has written the bytes that
\* download_raw returned to the file reached from d by the components of
\* file_path, and has created or changed no other file
C16_DstDirWritesOneFile ==
    (LastIs("download") /\ Truthy(last.dst_dir) /\ last.dst_file = None
        /\ last.outcome = "return")
        => LET w == Walk(SplitBy(last.file_path, Slash), Resolve(last.dst_dir))
           IN  /\ w \in DOMAIN files
               /\ files[w] = FetchedBytes
               /\ OnlyFileTouched(w)

\* download("s/a", dst_dir="d") wrote the master's body to d/s/a
C16_Witness ==
    /\ LastIs("download")
    /\ last.dst_dir = <<100>>
    /\ last.dst_file = None
    /\ last.file_path = <<115, 47, 97>>
    /\ last.outcome = "return"
    /\ Cwd \o << <<100>>, <<115>>, <<97>> >> \in DOMAIN files
    /\ files[Cwd \o << <<100>>, <<115>>, <<97>> >>] = <<66>>

\* the servers of the last call let download_raw return bytes
FetchSucceeds == Is200(CdnOutcome) \/ (IsRefused(CdnOutcome) /\ Is200(MasterOutcome))

\* before the last call nothing stood in the way of a file at w: no regular
\* file on the path to it, no directory in its place
Unobstructed(w) ==
    /\ w \notin last.dirs_before
    /\ \A k \in 0..(Len(w) - 1) : SubSeq(w, 1, k) \notin DOMAIN last.files_before

\* C17: a download with dst_file = p whose fetch succeeds writes the fetched
\* bytes to the path p, whatever file_path is, and the directory of p exists
\* afterwards
C17_DstFileWritesExactPath ==
    (LastIs("download") /\ last.dst_dir = None /\ Truthy(last.dst_file)
        /\ FetchSucceeds /\ Unobstructed(Resolve(last.dst_file)))
        => /\ last.outcome = "return"
           /\ Resolve(last.dst_file) \in DOMAIN files
           /\ files[Resolve(last.dst_file)] = FetchedBytes
           /\ Parent(Resolve(last.dst_file)) \in dirs

\* C18: when a download into a directory that did not exist has succeeded,
\* the same call made again (same arguments, same answers of the servers)
\* succeeds and leaves the files and the directories as the first call left
\* them
C18_RepeatedDownloadSucceeds ==
    [][(/\ LastIs("download")
        /\ last.outcome = "return"
        /\ Parent(Resolve(last.write_path)) \notin last.dirs_before
        /\ ncalls' = ncalls + 1
        /\ last'.op = "download"
        /\ last'.file_path = last.file_path
        /\ last'.dst_dir = last.dst_dir
        /\ last'.dst_file = last.dst_file
        /\ last'.net = last.net)
            => /\ last'.outcome = "return"
               /\ files' = files
               /\ dirs' = dirs]_vars

\* the second download("s/a", dst_dir="d/e") in a working directory that was
\* empty: d/e/s/a, the only file, is as the first call wrote it
C18_Witness ==
    /\ ncalls = 2
    /\ LastIs("download")
    /\ last.outcome = "return"
    /\ last.dst_dir = <<100, 47, 101>>
    /\ last.file_path = <<115, 47, 97>>
    /\ DOMAIN files = {Resolve(last.write_path)}
    /\ files = last.files_before
    /\ dirs = last.dirs_before
    /\ Cwd \o << <<100>>, <<101>>, <<115>> >> \in dirs

\* C15: when patch_url is <prefix>/<version>/ with <version> non-empty and
\* without '/', version returns <version>
C15_VersionOfWellFormedUrl ==
    LastIs("version") =>
        LET u == patch_url[last.o]
        IN  \A i \in 1..(Len(u) - 2) :
                (/\ u[Len(u)] = Slash
                 /\ u[i] = Slash
                 /\ \A j \in (i + 1)..(Len(u) - 1) : u[j] /= Slash)
                    => last.value = SubSeq(u, i + 1, Len(u) - 1)

\* "./1./": prefix ".", version "1."
C15_Witness ==
    /\ LastIs("version")
    /\ patch_url[last.o] = <<46, Slash, 49, 46, Slash>>
    /\ last.value = <<49, 46>>

\* u without its last character when that is a '/', u otherwise
WithoutOneTrailingSlash(u) ==
    IF Len(u) > 0 /\ u[Len(u)] = Slash THEN SubSeq(u, 1, Len(u) - 1) ELSE u

\* C27: version is the last '/'-separated segment of patch_url after the
\* removal of exactly one trailing '/', if there is one
C27_VersionStripsOneSlash ==
    LastIs("version") =>
        LET t == WithoutOneTrailingSlash(patch_url[last.o])
        IN  last.value = SubSeq(t, RFind(t, Slash) + 1, Len(t))

-----------------------------------------------------------------------------
(* Claims on the handshake, checked under SpecParse and Spec *)

LastIsHandshake == last.op \in {"__init__", "update_patch_urls"} /\ last.hs > 0

\* the bytes of the record the server built (its fixed fields take 37 bytes)
DeclaredSize == Whole(last.u1, last.u2)

\* C7: a handshake whose received response is shorter than
\* 36 + len1*2 + len2*2 bytes fails with an error
C7_TruncatedResponseFails ==
    (LastIsHandshake /\ Len(last.received) < 36 + 2 * Len(last.u1) + 2 * Len(last.u2))
        => last.outcome = "raise"

\* C8: patch_url and patch_cdn_url of a constructed object are both unset or
\* both taken from the response of the same handshake
C8_UrlsFromSameHandshake ==
    \A o \in Objs : obj_state[o] = "constructed" => url_hs[o] = cdn_hs[o]

\* C9: a response built from (u1, u2) as status byte, 33 reserved bytes, len1,
\* u1 in UTF-16LE, reserved byte, len2, u2 in UTF-16LE, received whole (padded
\* or not), is parsed into patch_url = u1 and patch_cdn_url = u2
C9_ParseRoundTrip ==
    (/\ LastIsHandshake
     /\ Len(last.received) >= DeclaredSize
     /\ SubSeq(last.received, 1, DeclaredSize) = HandshakeResponse(2, 0, last.u1, last.u2))
        => /\ last.outcome = "return"
           /\ patch_url[last.o] = last.u1
           /\ patch_cdn_url[last.o] = last.u2

\* the code units of a payload read as little-endian UTF-16
LittleEndianUnits(b) == [i \in 1..(Len(b) \div 2) |-> b[2 * i - 1] + 256 * b[2 * i]]

\* the bytes of the first URL field, and of the second, in the received bytes
Payload1 == bytes_read(last.received, 2 + BlankLen, 2 * last.received[2 + BlankLen])
CdnAt == 2 + BlankLen + Len(Payload1)
Payload2 == bytes_read(last.received, CdnAt + 2, 2 * last.received[CdnAt + 2])

\* C28: a handshake that received a URL field whole decodes it as
\* little-endian UTF-16 code units, a byte-order mark included: the URL has
\* len code units and unit i is byte 2i + 256 * byte 2i+1 of the payload
C28_DecodedAsLittleEndianUnits ==
    (LastIsHandshake /\ last.outcome = "return")
        => /\ patch_url[last.o] = LittleEndianUnits(Payload1)
           /\ patch_cdn_url[last.o] = LittleEndianUnits(Payload2)

\* the responses that differ from the received one in the reserved fields only
ReservedVariants ==
    {WithReserved(last.received, s, f, g) :
        s \in ReservedBytes, f \in ReservedBytes, g \in ReservedBytes}

\* C29: the handshake ends on the received response as it ends on every
\* response that differs from it only in the status byte, the 33 reserved
\* bytes and the reserved byte between the URLs: it succeeds on one exactly
\* when it succeeds on the other, with the same patch_url and patch_cdn_url
C29_ReservedFieldsIgnored ==
    (LastIs("__init__") /\ last.hs > 0)
        => \A v \in ReservedVariants :
              LET r == parse_response(v)
              IN  /\ r.ok = (last.outcome = "return")
                  /\ r.patch_url = patch_url[last.o]
                  /\ r.patch_cdn_url = patch_cdn_url[last.o]

\* a response with the status byte 255, the reserved bytes 255 and the byte
\* between the URLs 2 was received whole and gave both URLs
C29_Witness ==
    /\ LastIs("__init__")
    /\ last.outcome = "return"
    /\ last.received[1] = 255
    /\ last.received[1 + BlankLen] = 255
    /\ last.received[CdnAt + 1] = 2
    /\ patch_url[last.o] = <<98, 47>>
    /\ patch_cdn_url[last.o] = <<97>>

\* C10: after a release (Patch.__del__, socket_fd_close) that completed
\* without error the connection is shut down, the descriptor it was given is
\* closed and no open descriptor of the connection remains
C10_ReleaseClosesDescriptor ==
    (last.op \in {"__del__", "socket_fd_close"} /\ last.outcome = "return")
        => /\ conns[last.conn].shut
           /\ last.fd \notin DOMAIN fdtab
           /\ \A f \in DOMAIN fdtab : fdtab[f] /= last.conn

-----------------------------------------------------------------------------
(* Claims on the release and on the connections *)

\* the last call was a Patch.__del__ that got its socket object
DelRan == LastIs("__del__") /\ Len(last.sockops) >= 2

\* C11: in Patch.__del__ a failure of shutdown (the peer has ended the
\* connection) is passed over and close is still called; __del__ raises
\* exactly when close fails, and then the error of close
C11_ShutdownSwallowedCloseRaised ==
    DelRan =>
        /\ Len(last.sockops) = 3
        /\ last.sockops[2].call = "shutdown"
        /\ last.sockops[3].call = "close"
        /\ (last.outcome = "raise") <=> ~last.sockops[3].ok
        /\ (last.outcome = "raise") => last.exc = Exc("OSError", "close", 5)

C11_Witness ==
    /\ DelRan
    /\ conns[last.conn].peer = "reset"
    /\ ~last.sockops[2].ok
    /\ last.sockops[3].call = "close"
    /\ last.outcome = "return"

\* C12: a download, download_raw or version call leaves sock_fd, patch_url and
\* patch_cdn_url as they are and does nothing to the descriptors and to the
\* connections of the handshakes (no send, recv, shutdown or close)
C12_CallsLeaveSessionAlone ==
    [][ncalls' /= ncalls =>
          /\ sock_fd' = sock_fd
          /\ patch_url' = patch_url
          /\ patch_cdn_url' = patch_cdn_url
          /\ fdtab' = fdtab
          /\ conns' = conns]_vars

C12_Witness ==
    /\ LastIs("download")
    /\ last.outcome = "return"
    /\ ncalls > 0
    /\ sock_fd[1] \in DOMAIN fdtab
    /\ conns[fdtab[sock_fd[1]]] =
          [peer |-> "open", shut |-> FALSE, sent |-> PROTO, recvs |-> 1]

\* the descriptors that object p and its thread hold
FdsOf(p) == {sock_fd[p], thr[p].fd} \cap DOMAIN fdtab

\* the step leaves what belongs to object p as it is: its attributes, the
\* position of its thread, its descriptors, and what the client has done on
\* its connections (bytes sent, receives, shutdown)
Untouched(p) ==
    /\ obj_state'[p] = obj_state[p]
    /\ patch_url'[p] = patch_url[p]
    /\ patch_cdn_url'[p] = patch_cdn_url[p]
    /\ sock_fd'[p] = sock_fd[p]
    /\ thr'[p] = thr[p]
    /\ \A f \in FdsOf(p) :
          /\ f \in DOMAIN fdtab'
          /\ fdtab'[f] = fdtab[f]
          /\ fdtab[f] > 0 =>
                /\ conns'[fdtab[f]].shut = conns[fdtab[f]].shut
                /\ conns'[fdtab[f]].sent = conns[fdtab[f]].sent
                /\ conns'[fdtab[f]].recvs = conns[fdtab[f]].recvs

\* C19: with two Patch objects used by two threads, a step of an operation on
\* one object leaves the attributes, the descriptors and the connection of
\* the other object untouched
C19_ThreadsDoNotInterfere ==
    [][\A p \in Objs : last'.o /= p => Untouched(p)]_vars

\* object 2 has been released while object 1 is in use: the connection of
\* object 2 is shut down, the one of object 1 is not
C19_Witness ==
    /\ obj_state = <<"constructed", "deleted">>
    /\ LastIs("__del__")
    /\ last.o = 2
    /\ sock_fd[1] \in DOMAIN fdtab
    /\ sock_fd[2] \in DOMAIN fdtab
    /\ fdtab[sock_fd[1]] /= fdtab[sock_fd[2]]
    /\ ~conns[fdtab[sock_fd[1]]].shut
    /\ conns[fdtab[sock_fd[2]]].shut

\* the socket calls of the last call, in order
CallsOf(ops) == [i \in 1..Len(ops) |-> ops[i].call]

\* C20: a handshake that got its connection has made these calls on its
\* socket and no others: connect, one send, one recv, then detach or close;
\* the bytes sent on the connection are 0x01 0x04 and the recv took at most
\* 1024 bytes
C20_HandshakeExchange ==
    LastIsHandshake =>
        /\ CallsOf(last.sockops) \in
              {<<"socket", "connect", "send", "recv", "detach">>,
               <<"socket", "connect", "send", "recv", "close">>}
        /\ conns[last.hs].sent = <<1, 4>>
        /\ conns[last.hs].recvs = 1
        /\ Len(last.received) <= 1024

\* a handshake whose recv was handed 1024 bytes
C20_Witness ==
    /\ LastIsHandshake
    /\ last.outcome = "return"
    /\ Len(last.received) = 1024
    /\ conns[last.hs].sent = <<1, 4>>

\* every close of the step that ends in last' succeeded
ClosesSucceeded ==
    \A i \in 1..Len(last'.sockops) :
        last'.sockops[i].call = "close" => last'.sockops[i].ok

C31_CloseEquivalentToDel ==
    \A o \in Objs :
        (obj_state[o] = "constructed" /\ sock_fd[o] \in DOMAIN fdtab)
            => \A close_ok \in BOOLEAN :
                  LET c == socket_fd_close(sock_fd[o], fdtab, conns, close_ok)
                      d == patch_del(sock_fd[o], fdtab, conns, close_ok)
                  IN  /\ c.outcome = d.outcome
                      /\ c.fdtab = d.fdtab
                      /\ c.conns = d.conns

\* C36: the release of an object whose constructor raised, so that sock_fd
\* was never set, makes no socket call and raises no error
C36_DelSafeAfterFailedInit ==
    (LastIs("__del__") /\ last.fd = NoFd)
        => (last.outcome = "return" /\ last.sockops = <<>>)

\* C13: after a successful update_patch_urls on a constructed object the only
\* open descriptor of a connection to the master server is the object's
\* sock_fd: the descriptor of the handshake before has been closed
C13_OneOpenConnection ==
    (LastIs("update_patch_urls") /\ last.outcome = "return")
        => DOMAIN fdtab = {sock_fd[last.o]}

\* the construction met one of the failures of the handshake: the connection
\* was refused, or fewer bytes arrived than the fixed fields and the declared
\* lengths of the response take
ConstructionMustFail ==
    /\ LastIs("__init__")
    /\ \/ last.hs = 0
       \/ Len(last.received) < DeclaredSize

\* C14: a construction that meets a failure of the handshake raises, leaves
\* no constructed object, and the socket of the attempt is closed: no
\* descriptor of its connection stays open
C14_FailedConstructionCleansUp ==
    ConstructionMustFail =>
        /\ last.outcome = "raise"
        /\ obj_state[last.o] /= "constructed"
        /\ last.sockops[Len(last.sockops)].call = "close"
        /\ \A f \in DOMAIN fdtab : last.hs = 0 \/ fdtab[f] /= last.hs

-----------------------------------------------------------------------------
(* Claims on the command-line config, checked under SpecSetup and SpecRun *)

\* the step is a call on the config
ConfigCalled == proc'.calls /= proc.calls

\* the setup of key is pending in cfg
Pending(cfg, key) == key \in DOMAIN cfg.setup /\ ~cfg.setup[key]

\* C25: after a set_option(key, value) that returned, on a key with a
\* registered setup, the setup of the key is pending; a pending setup stays
\* pending in every step except a SetupHandler.setup in which all the setup
\* functions of the key returned; and while it is pending is_setup(key)
\* returns False and get_option(key) with safe raises SetupError
C25_PendingUntilSetup ==
    [][/\ (ConfigCalled /\ last'.op = "set_option" /\ last'.outcome = "return"
              /\ last'.key \in DOMAIN config.setup)
          => Pending(config', last'.key)
       /\ \A k \in DOMAIN config.setup :
             (Pending(config, k) /\ ~Pending(config', k))
                => (ConfigCalled /\ last'.op = "setup" /\ k \in last'.ran)
       /\ (ConfigCalled /\ last'.op = "is_setup" /\ Pending(config, last'.key))
          => (last'.outcome = "return" /\ last'.value = FALSE)
       /\ (ConfigCalled /\ last'.op = "get_option" /\ last'.safe
              /\ Pending(config, last'.key))
          => (last'.outcome = "raise" /\ last'.exc.type = "SetupError")]_vars

\* the setup of temp_dir was performed when the process started, temp_dir was
\* set to a new value, a setup whose functions raised left it pending, and
\* get_option raised SetupError
C25_Witness ==
    /\ proc.start.setup["temp_dir"]
    /\ "temp_dir" \in DOMAIN config.option
    /\ config.option["temp_dir"] = "b"
    /\ Pending(config, "temp_dir")
    /\ last.op = "get_option"
    /\ last.key = "temp_dir"
    /\ last.safe
    /\ last.exc.type = "SetupError"
    /\ proc.calls = MaxConfigCalls

\* the functions registered for key k in cfg
FuncsOf(cfg, k) ==
    IF k \in DOMAIN cfg.setupFunctions THEN cfg.setupFunctions[k] ELSE <<>>

IsFuncOf(cfg, k, f) == \E i \in 1..Len(FuncsOf(cfg, k)) : FuncsOf(cfg, k)[i] = f

\* the calls of the step that went to functions of key k
CalledOf(k) == SelectSeq(last'.called, LAMBDA f : IsFuncOf(config, k, f))

NoneFails(k) == \A i \in 1..Len(FuncsOf(config, k)) : FuncsOf(config, k)[i] \notin last'.fails

\* C32: in a run of SetupHandler.setup no function of a performed key is
\* called and the key stays performed; for a pending key the functions are
\* called in order up to the first that raises; the key is performed
\* afterwards only if none raised, and is performed if it has registered
\* functions and none raised; a key with a function that raised stays
\* pending, whatever happened to the other keys; every call goes to a
\* function of a pending key; setup returns 0
C32_SetupLoop ==
    [][(ConfigCalled /\ last'.op = "setup")
        => /\ last'.outcome = "return"
           /\ last'.value = 0
           /\ DOMAIN config'.setup = DOMAIN config.setup
           /\ \A i \in 1..Len(last'.called) :
                 \E k \in DOMAIN config.setup :
                    ~config.setup[k] /\ IsFuncOf(config, k, last'.called[i])
           /\ \A k \in DOMAIN config.setup :
                 LET fs == FuncsOf(config, k)
                     n == Len(CalledOf(k))
                 IN  IF config.setup[k]
                     THEN n = 0 /\ config'.setup[k]
                     ELSE /\ CalledOf(k) = SubSeq(fs, 1, n)
                          /\ \A i \in 1..(n - 1) : fs[i] \notin last'.fails
                          /\ ~NoneFails(k) => (n >= 1 /\ fs[n] \in last'.fails)
                          /\ config'.setup[k] => NoneFails(k)
                          /\ (NoneFails(k) /\ k \in DOMAIN config.setupFunctions)
                                => (n = Len(fs) /\ config'.setup[k])]_vars

\* both keys were pending; f1 of temp_dir raised, f2 was not called and
\* temp_dir stayed pending; g1 and g2 of out_dir ran and out_dir is performed
C32_Witness ==
    /\ last.op = "setup"
    /\ last.fails = {"f1"}
    /\ last.called = <<"f1", "g1", "g2">>
    /\ ~proc.start.setup["out_dir"]
    /\ config.setupFunctions["temp_dir"] = <<"f1", "f2">>
    /\ ~config.setup["temp_dir"]
    /\ config.setup["out_dir"]

\* C33: after run with a `config set` whose value the validator rejects, the
\* config is what it was when the process started, the 'performed' flags
\* included, and the file holds that config
C33_RejectedSetChangesNothing ==
    (LastIs("run") /\ last.argv = "set" /\ ~validator_check(last.value).ok)
        => /\ Snapshot(config) = Snapshot(proc.start)
           /\ config.file = Snapshot(proc.start)

C35_RegisterKeepsPerformed ==
    [][(ConfigCalled /\ last'.op = "register_setup")
        => /\ DOMAIN config'.setup = DOMAIN config.setup \cup {last'.key}
           /\ \A k \in DOMAIN config.setup : config'.setup[k] = config.setup[k]
           /\ last'.key \notin DOMAIN config.setup => ~config'.setup[last'.key]
           /\ config'.option = config.option]_vars

\* the file gave temp_dir as performed; its setup was registered twice, the
\* second time with f1 and f2: it is still performed
C35_Witness ==
    /\ last.op = "register_setup"
    /\ last.key = "temp_dir"
    /\ proc.calls = MaxRegisterCalls
    /\ proc.start.setup = [k \in {"temp_dir"} |-> TRUE]
    /\ config.setup["temp_dir"]
    /\ config.setupFunctions["temp_dir"] = <<"f1", "f2">>

\* C26: when the process of run(parser, config) has exited, the config was
\* validated and written, and the file holds the config
C26_RunAlwaysWrites ==
    (LastIs("run") /\ proc.state = "exited")
        => (proc.validated /\ proc.written /\ config.file = Snapshot(config))

=============================================================================
